---- MODULE Spec2Model ----
(***************************************************************************)
(* A state-machine model of Scripts/CreateUPDM.py: one run of the tool,    *)
(* from start() to its end.  The run is sequential; every call into the    *)
(* GIS platform (arcpy) is an external call that either succeeds or raises,*)
(* chosen nondeterministically where the platform decides.                 *)
(***************************************************************************)
EXTENDS Integers, Sequences, FiniteSets, TLC

VARIABLES
    param,      \* the seven tool parameters (arcpy.GetParameter*)
    env,        \* what the run reads from its surroundings: arcpy.env, the documents
    pc,         \* the step of start() that runs next
    gdb,        \* the output geodatabase
    calls,      \* the external calls issued so far, in order
    errors,     \* arcpy.AddError messages, in order
    warnings,   \* arcpy.AddWarning messages, in order
    raised,     \* the exception that ended the run, if any
    branches,   \* the branches updateEventNetwork has executed
    conflicts,  \* the lists checkNames got from its two scans
    lrsMetadata, \* the metadata tree updateMetadata returned (createLrs's local)
    updmXml,    \* the UPDM document tree start() parsed (the children of its root)
    newSpatialReferenceXml, \* the SpatialReference element replaceSpatialReference built
    srMetersPerUnit, \* what getMetersPerUnit(newSpatialReference) came to
    scratch,    \* the scratch files and feature classes the run has created
    conversion  \* a call of convertUnits and of its inverse, made on their own

vars == <<param, env, pc, gdb, calls, errors, warnings, raised, branches,
          conflicts, lrsMetadata,
                 updmXml, newSpatialReferenceXml, srMetersPerUnit, scratch, conversion>>

(***************************************************************************)
(* Bounds of the model.                                                    *)
(***************************************************************************)
MaxTolerance == 1       \* tolerance parameters range over -1 .. MaxTolerance
MaxEngEvents == 2       \* event tables registered to the engineering network
MaxContEvents == 1      \* event tables registered to the continuous network
MaxChildren == 2        \* children of the UPDM document's root
MaxNested == 2          \* children of a child of the root
MaxBehaviorRows == 2    \* rows of Lrs_Event_Behavior
MaxNetworkId == 3       \* NetworkId values of a row of Lrs_Event_Behavior
MaxDistance == 2        \* distances converted range over n/d, |n|, d <= MaxDistance
MaxMetersPerUnit == 2   \* metersPerUnit of a spatial reference that has the property

(***************************************************************************)
(* Python values.                                                          *)
(***************************************************************************)
\* eventRegistrationNetworkValues
eventRegistrationNetworkValues ==
    [ENGINEERING |-> "ENGINEERING", CONTINUOUS |-> "CONTINUOUS"]

\* an attribute an element does not carry (Element.get(..., None) is None)
Absent == "(absent)"

NoException == [type |-> "none", message |-> <<>>]
ExecuteError(msg) == [type |-> "ExecuteError", message |-> msg]

\* an external call: the arcpy function, its target (a table, a dataset, a
\* document), and its further arguments
Call(op, target, arg, n, detail) ==
    [op |-> op, target |-> target, arg |-> arg, n |-> n, detail |-> detail]

\* an exception raised by the platform inside an external call
PlatformError(call) == [type |-> "ExecuteError", message |-> <<call.op, call.target>>]

\* a numeric parameter: unset (None) or a number
NoneNumber == [isNone |-> TRUE, value |-> 0]
Number(n) == [isNone |-> FALSE, value |-> n]

\* a spatial reference object, or None
\* a spatial reference: its type, and its metersPerUnit where the platform
\* supports the property on it
SpatialReference(xy, z, type, hasMetersPerUnit, metersPerUnit) ==
    [isNone |-> FALSE, XYTolerance |-> xy, ZTolerance |-> z, type |-> type,
     hasMetersPerUnit |-> hasMetersPerUnit, metersPerUnit |-> metersPerUnit]

NoneSR == [SpatialReference(0, 0, "Projected", TRUE, 1) EXCEPT !.isNone = TRUE]
SR(xy, z) == SpatialReference(xy, z, "Projected", TRUE, 1)

(***************************************************************************)
(* Sequence helpers (Python list operations).                              *)
(***************************************************************************)
\* list.index-free removal of the element at position i (1-based)
RemoveAt(s, i) == [j \in 1..(Len(s) - 1) |-> IF j < i THEN s[j] ELSE s[j + 1]]

\* list.insert(index, x) with a 0-based index, clamped to the list's length
InsertAt(s, index, x) ==
    LET k == IF index > Len(s) THEN Len(s) ELSE index
    IN  [j \in 1..(Len(s) + 1) |->
            IF j <= k THEN s[j] ELSE IF j = k + 1 THEN x ELSE s[j - 1]]

\* the elements of s that satisfy Test, in order
RECURSIVE SelectNames(_, _)
SelectNames(s, keep) ==
    IF s = <<>> THEN <<>>
    ELSE IF Head(s) \in keep THEN <<Head(s)>> \o SelectNames(Tail(s), keep)
    ELSE SelectNames(Tail(s), keep)

RECURSIVE Flatten(_)
Flatten(ss) == IF ss = <<>> THEN <<>> ELSE Head(ss) \o Flatten(Tail(ss))

Range(s) == {s[i] : i \in DOMAIN s}

(***************************************************************************)
(* Numbers.  A Python float is modelled by the rational it stands for,     *)
(* [num, den] in lowest terms with den > 0; products are reduced crosswise *)
(* before they are multiplied.                                             *)
(***************************************************************************)
Abs(n) == IF n < 0 THEN -n ELSE n

RECURSIVE GCD(_, _)
GCD(a, b) == IF b = 0 THEN Abs(a) ELSE GCD(b, a % b)

\* float(n / d)
Rat(n, d) ==
    LET g == GCD(Abs(n), Abs(d))
    IN  IF d < 0 THEN [num |-> (-n) \div g, den |-> (-d) \div g]
        ELSE [num |-> n \div g, den |-> d \div g]

\* x * y
Times(x, y) ==
    LET g1 == GCD(Abs(x.num), y.den)
        g2 == GCD(Abs(y.num), x.den)
    IN  IF x.num = 0 \/ y.num = 0 THEN [num |-> 0, den |-> 1]
        ELSE [num |-> (x.num \div g1) * (y.num \div g2),
              den |-> (x.den \div g2) * (y.den \div g1)]

\* x / y, y not 0
Over(x, y) ==
    Times(x, IF y.num < 0 THEN [num |-> -y.den, den |-> -y.num]
             ELSE [num |-> y.den, den |-> y.num])

(***************************************************************************)
(* Parameter accessors.                                                    *)
(***************************************************************************)
getOutputGDBParamAsText == param.outputGDB

getSpatialReferenceParam == param.spatialReference

\* an unset measure unit defaults to FEET
getMUnitsParamAsText == IF param.mUnits = "" THEN "FEET" ELSE param.mUnits

getMUnitsParam == IF param.mUnits = "" THEN "FEET" ELSE param.mUnits

\* an unset or zero tolerance is replaced by the spatial reference's own
getXYToleranceParam ==
    IF param.xyTolerance.isNone \/ param.xyTolerance.value = 0
    THEN Number(getSpatialReferenceParam.XYTolerance)
    ELSE param.xyTolerance

getZToleranceParam ==
    IF param.zTolerance.isNone \/ param.zTolerance.value = 0
    THEN Number(getSpatialReferenceParam.ZTolerance)
    ELSE param.zTolerance

\* an unset mode defaults to ENGINEERING
getEventRegistrationNetworkParamAsText ==
    IF param.eventRegistrationNetwork = ""
    THEN eventRegistrationNetworkValues.ENGINEERING
    ELSE param.eventRegistrationNetwork

getRegisterPipeSystemParam == param.registerPipeSystem

(***************************************************************************)
(* validateInput: the message of the first check that fails, <<>> if none. *)
(***************************************************************************)
\* dict.get(key, None) is None: the key is not one of the dictionary's
IsRegistrationNetworkKey(v) == v \in DOMAIN eventRegistrationNetworkValues

\* validateInput without the check against eventRegistrationNetworkValues
validateEventRegistrationNetwork_NoEnumCheck ==
    IF getEventRegistrationNetworkParamAsText = ""
    THEN <<"Please provide an Event Measure Storage.">>
    ELSE <<>>

validateEventRegistrationNetwork ==
    LET eventRegistrationNetwork == getEventRegistrationNetworkParamAsText
    IN  IF eventRegistrationNetwork = ""
        THEN <<"Please provide an Event Measure Storage.">>
        ELSE IF ~IsRegistrationNetworkKey(eventRegistrationNetwork)
        THEN <<"Event Measure Storage must be one of the following: ",
               eventRegistrationNetworkValues.ENGINEERING,
               eventRegistrationNetworkValues.CONTINUOUS>>
        ELSE <<>>

\* a tolerance check that lets 0 through
NotPositive_ZeroAllowed(n) == n.isNone \/ n.value < 0

\* None <= 0 holds in Python 2, and the check tests for None first
NotPositive(n) == n.isNone \/ n.value <= 0

validateInput ==
    IF getOutputGDBParamAsText = ""
    THEN <<"Please provide an Output GDB.">>
    ELSE IF getSpatialReferenceParam.isNone
    THEN <<"Please provide a Spatial Reference.">>
    ELSE IF getMUnitsParamAsText = ""
    THEN <<"Please provide a Measure Unit.">>
    ELSE IF NotPositive(getXYToleranceParam)
    THEN <<"Please provide an XY Tolerance that is greater than 0.">>
    ELSE IF NotPositive(getZToleranceParam)
    THEN <<"Please provide a Z Tolerance that is greater than 0.">>
    ELSE validateEventRegistrationNetwork

(***************************************************************************)
(* Workspace documents and the pre-flight check (checkNames).              *)
(* A document is [datasets, domains]: datasets is the list of DataElement  *)
(* children of DatasetDefinitions, each [Name, Children] where Children are*)
(* the names of the DataElements nested in it; domains is the list of      *)
(* DomainName texts under Domains.                                         *)
(***************************************************************************)
DataElement(name, children) == [Name |-> name, Children |-> children]

\* xmlDatasetDefinitions.findall("DataElement"): the direct children only
findallDataElement(workspaceXml) ==
    [i \in 1..Len(workspaceXml.datasets) |-> workspaceXml.datasets[i].Name]

\* every dataset name a document declares, at any depth
RECURSIVE DeclaredNames(_)
DeclaredNames(elements) ==
    IF elements = <<>> THEN <<>>
    ELSE <<Head(elements).Name>> \o Head(elements).Children
             \o DeclaredNames(Tail(elements))

\* arcpy.Exists(getFullTableName(name))
Exists(name) == name \in gdb.datasets

checkDatasetNames(workspaceXmls) ==
    Flatten([i \in 1..Len(workspaceXmls) |->
        SelectNames(findallDataElement(workspaceXmls[i]), gdb.datasets)])

checkDomainNames(workspaceXmls) ==
    Flatten([i \in 1..Len(workspaceXmls) |->
        SelectNames(workspaceXmls[i].domains, gdb.domains)])

\* a conflict message that leaves the domains out
ConflictMessage_DatasetsOnly(datasets, domains) ==
    IF Len(datasets) > 0
    THEN <<"The following items already exist in the workspace. Please remove them to run this tool.">>
             \o datasets
    ELSE <<"The following domains already exist in the workspace. Please remove them to run this tool.">>

\* the message checkNames logs when overwriteOutput is off
ConflictMessage(datasets, domains) ==
    (IF Len(datasets) > 0
     THEN <<"The following items already exist in the workspace. Please remove them to run this tool.">>
              \o datasets
     ELSE <<>>)
    \o
    (IF Len(domains) > 0
     THEN <<"The following domains already exist in the workspace. Please remove them to run this tool.">>
              \o domains
     ELSE <<>>)

\* the delete calls of removeDatasets followed by those of removeDomains
removeDatasetsCalls(datasets) ==
    [i \in 1..Len(datasets) |-> Call("Delete_management", datasets[i], "", 0, "")]

removeDomainsCalls(domains) ==
    [i \in 1..Len(domains) |->
        Call("DeleteDomain_management", domains[i], "", 0, "")]

\* the domains removed before the datasets
removeCalls_DomainsFirst(datasets, domains) ==
    removeDomainsCalls(domains) \o removeDatasetsCalls(datasets)

removeCalls(datasets, domains) ==
    removeDatasetsCalls(datasets) \o removeDomainsCalls(domains)

\* the names an earlier call of the batch has already deleted
DeletedBefore(batch, i) ==
    {batch[j].target : j \in {x \in 1..(i - 1) : batch[x].op = batch[i].op}}

\* the platform cannot delete what is not there (any more)
DeleteCanSucceed(batch, i) ==
    /\ batch[i].target \notin DeletedBefore(batch, i)
    /\ IF batch[i].op = "Delete_management"
       THEN batch[i].target \in gdb.datasets
       ELSE batch[i].target \in gdb.domains

\* the names the first k calls of the batch deleted with operation op
DeletedNames(batch, k, op) ==
    {batch[j].target : j \in {x \in 1..k : batch[x].op = op}}

(***************************************************************************)
(* The LRS metadata blob: the XML document stored in Lrs_Metadata.Metadata.*)
(* It holds the two networks; a network is [IsDerived, DerivedFromNetwork, *)
(* children], children being its child elements in document order, each    *)
(* [tag, text, items]; the items of an EventTables child are its EventTable*)
(* elements, each a record of attributes.                                  *)
(***************************************************************************)
Child(tag, text, items) == [tag |-> tag, text |-> text, items |-> items]

\* a point event as registered in the embedded document (P_Anomaly)
PointEvent(name) ==
    [Name |-> name, IsPointEvent |-> "true",
     RouteIdFieldName |-> "ENGROUTEID", RouteNameFieldName |-> "ENGROUTENAME",
     ToRouteIdFieldName |-> "", ToRouteNameFieldName |-> "",
     FromMeasureFieldName |-> "ENGM", ToMeasureFieldName |-> "",
     FromReferentMethodFieldName |-> "REFMETHOD", ToReferentMethodFieldName |-> "",
     TimeZoneOffset |-> "0", TimeZoneId |-> "UTC",
     StoreFieldsFromDerivedNetworkWithEventRecords |-> "false",
     DerivedRouteIdFieldName |-> "", DerivedRouteNameFieldName |-> "",
     DerivedFromMeasureFieldName |-> "", DerivedToMeasureFieldName |-> ""]

\* a line event as registered in the embedded document (P_ConsequenceSegment)
LineEvent(name) ==
    [Name |-> name, IsPointEvent |-> "false",
     RouteIdFieldName |-> "ENGROUTEID", RouteNameFieldName |-> "ENGROUTENAME",
     ToRouteIdFieldName |-> "ENGTOROUTEID", ToRouteNameFieldName |-> "ENGTOROUTENAME",
     FromMeasureFieldName |-> "ENGFROMM", ToMeasureFieldName |-> "ENGTOM",
     FromReferentMethodFieldName |-> "FROMREFMETHOD",
     ToReferentMethodFieldName |-> "TOREFMETHOD",
     TimeZoneOffset |-> "0", TimeZoneId |-> "UTC",
     StoreFieldsFromDerivedNetworkWithEventRecords |-> "false",
     DerivedRouteIdFieldName |-> "", DerivedRouteNameFieldName |-> "",
     DerivedFromMeasureFieldName |-> "", DerivedToMeasureFieldName |-> Absent]

\* a network element with the children of the embedded document
Network(eventTables) ==
    [IsDerived |-> "false", DerivedFromNetwork |-> "-1",
     children |-> <<Child("RouteFieldNames", "", <<>>),
                    Child("EventTables", "", eventTables),
                    Child("UnitsOfMeasure", "3", <<>>),
                    Child("TimeZoneOffset", "0", <<>>),
                    Child("TimeZoneId", "UTC", <<>>)>>]

\* a network element without child elements
ChildlessNetwork ==
    [IsDerived |-> "false", DerivedFromNetwork |-> "-1", children |-> <<>>]

\* Element.find(tag): the position of the first child with that tag, 0 for None
find(element, tag) ==
    IF \E i \in 1..Len(element.children) : element.children[i].tag = tag
    THEN CHOOSE i \in 1..Len(element.children) :
            /\ element.children[i].tag = tag
            /\ \A j \in 1..(i - 1) : element.children[j].tag # tag
    ELSE 0

\* the truth value of an Element: whether it has child elements
ElementTruth(element) == Len(element.children) # 0

\* the EventTable elements of a network (of its first EventTables child)
EventTablesOf(network) ==
    IF find(network, "EventTables") = 0 THEN <<>>
    ELSE network.children[find(network, "EventTables")].items

\* metadataXml.iter("EventTable"): every EventTable of the document, in order
iterEventTable(metadataXml) ==
    Flatten([i \in 1..Len(metadataXml.continuous.children) |->
                metadataXml.continuous.children[i].items])
    \o Flatten([i \in 1..Len(metadataXml.engineering.children) |->
                metadataXml.engineering.children[i].items])

\* the result of rewriting one row: the exception raised, if any, and the document
RowResult(exception, xml) == [raised |-> exception, xml |-> xml]

AttributeError == [type |-> "AttributeError", message |-> <<"'NoneType' object">>]

ValueError == [type |-> "ValueError", message |-> <<"list.remove(x): x not in list">>]

(***************************************************************************)
(* setDerivedNetwork: the ENGINEERING rewrite of one metadata row.         *)
(***************************************************************************)
\* every event table treated as a line event
setDerivedEventTable_AllLine(eventTable) ==
    [eventTable EXCEPT
        !.DerivedRouteIdFieldName = "CONTINROUTEID",
        !.DerivedRouteNameFieldName = "CONTINROUTENAME",
        !.StoreFieldsFromDerivedNetworkWithEventRecords = "true",
        !.DerivedFromMeasureFieldName = "CONTINFROMM",
        !.DerivedToMeasureFieldName = "CONTINTOM"]

\* a rewrite that points the route fields at the continuous network as well
setDerivedEventTable_Repointed(eventTable) ==
    LET derived == [eventTable EXCEPT
                      !.RouteIdFieldName = "CONTINROUTEID",
                      !.RouteNameFieldName = "CONTINROUTENAME",
                      !.DerivedRouteIdFieldName = "CONTINROUTEID",
                      !.DerivedRouteNameFieldName = "CONTINROUTENAME",
                      !.StoreFieldsFromDerivedNetworkWithEventRecords = "true"]
    IN  IF eventTable.IsPointEvent = "true"
        THEN [derived EXCEPT !.DerivedFromMeasureFieldName = "CONTINM"]
        ELSE [derived EXCEPT !.DerivedFromMeasureFieldName = "CONTINFROMM",
                             !.DerivedToMeasureFieldName = "CONTINTOM"]

\* the attributes set on one event table of the engineering network
setDerivedEventTable(eventTable) ==
    LET derived == [eventTable EXCEPT
                      !.DerivedRouteIdFieldName = "CONTINROUTEID",
                      !.DerivedRouteNameFieldName = "CONTINROUTENAME",
                      !.StoreFieldsFromDerivedNetworkWithEventRecords = "true"]
    IN  IF eventTable.IsPointEvent = "true"
        THEN [derived EXCEPT !.DerivedFromMeasureFieldName = "CONTINM"]
        ELSE [derived EXCEPT !.DerivedFromMeasureFieldName = "CONTINFROMM",
                             !.DerivedToMeasureFieldName = "CONTINTOM"]

\* "if (continuousNetwork):" tests the element's truth value, not "is not None"
setContinuousDerived(continuousNetwork) ==
    IF ElementTruth(continuousNetwork)
    THEN [continuousNetwork EXCEPT !.DerivedFromNetwork = "2", !.IsDerived = "true"]
    ELSE continuousNetwork

setDerivedNetworkRow(metadataXml) ==
    LET continuousNetwork == setContinuousDerived(metadataXml.continuous)
        engineeringNetwork == metadataXml.engineering
        events == find(engineeringNetwork, "EventTables")
    IN  IF ~ElementTruth(engineeringNetwork)
        THEN RowResult(NoException,
                 [metadataXml EXCEPT !.continuous = continuousNetwork])
        ELSE IF events = 0
        THEN RowResult(AttributeError, metadataXml)
        ELSE RowResult(NoException,
                 [continuous |-> continuousNetwork,
                  engineering |->
                     [engineeringNetwork EXCEPT !.children[events].items =
                         [i \in 1..Len(@) |-> setDerivedEventTable(@[i])]]])

(***************************************************************************)
(* updateContinuousMetadata: the CONTINUOUS rewrite of one metadata row.   *)
(***************************************************************************)
\* the rewrite without the clearing of the to-route fields
setContinuousEventTable_KeepToRoute(eventTable) ==
    LET repointed == [eventTable EXCEPT
                        !.RouteIdFieldName = "CONTINROUTEID",
                        !.RouteNameFieldName = "CONTINROUTENAME"]
    IN  IF eventTable.IsPointEvent = "true"
        THEN [repointed EXCEPT !.FromMeasureFieldName = "CONTINM"]
        ELSE [repointed EXCEPT !.FromMeasureFieldName = "CONTINFROMM",
                               !.ToMeasureFieldName = "CONTINTOM"]

\* the attributes set on one event table of the engineering network
setContinuousEventTable(eventTable) ==
    LET cleared == [eventTable EXCEPT
                      !.ToRouteIdFieldName = "",
                      !.ToRouteNameFieldName = "",
                      !.RouteIdFieldName = "CONTINROUTEID",
                      !.RouteNameFieldName = "CONTINROUTENAME"]
    IN  IF eventTable.IsPointEvent = "true"
        THEN [cleared EXCEPT !.FromMeasureFieldName = "CONTINM"]
        ELSE [cleared EXCEPT !.FromMeasureFieldName = "CONTINFROMM",
                             !.ToMeasureFieldName = "CONTINTOM"]

\* a copy instead of a move: the engineering network keeps its EventTables
exchangeEventTables_Copy(continuousNetwork, stationNetwork, emptyEvents, events) ==
    [continuous |->
        [continuousNetwork EXCEPT !.children =
            InsertAt(RemoveAt(continuousNetwork.children, emptyEvents), 1,
                     stationNetwork.children[events])],
     engineering |-> stationNetwork]

\* the four tree operations that exchange the two EventTables elements
exchangeEventTables(continuousNetwork, stationNetwork, emptyEvents, events) ==
    [continuous |->
        [continuousNetwork EXCEPT !.children =
            InsertAt(RemoveAt(continuousNetwork.children, emptyEvents), 1,
                     stationNetwork.children[events])],
     engineering |->
        [stationNetwork EXCEPT !.children =
            InsertAt(RemoveAt(stationNetwork.children, events), 1,
                     continuousNetwork.children[emptyEvents])]]

updateContinuousMetadataRow(metadataXml) ==
    LET continuousNetwork == metadataXml.continuous
        stationNetwork == metadataXml.engineering
        emptyEvents == find(continuousNetwork, "EventTables")
        events == find(stationNetwork, "EventTables")
    IN  IF events = 0
        THEN RowResult(AttributeError, metadataXml)
        ELSE IF emptyEvents = 0
        THEN RowResult(ValueError, metadataXml)
        ELSE RowResult(NoException,
                exchangeEventTables(
                    continuousNetwork,
                    [stationNetwork EXCEPT !.children[events].items =
                        [i \in 1..Len(@) |-> setContinuousEventTable(@[i])]],
                    emptyEvents, events))

(***************************************************************************)
(* updateMetadata: units and time zone of one metadata row.                *)
(***************************************************************************)
\* str.lower() on the names the model uses
Lower(units) ==
    CASE units = "FEET" -> "feet"
      [] units = "Meters" -> "meters"
      [] units = "Kilometers" -> "kilometers"
      [] units = "NAUTICAL_MILES" -> "nautical_miles"
      [] units = "Geographic" -> "geographic"
      [] units = "Projected" -> "projected"
      [] OTHER -> units

\* the esri units constant as text; an unknown unit gives 0 (and a warning)
getUnitsNumber(units) ==
    CASE Lower(units) = "feet" -> "3"
      [] Lower(units) = "meters" -> "9"
      [] OTHER -> "0"

updateMetadataNetwork(network) ==
    [network EXCEPT !.children =
        [i \in 1..Len(@) |->
            [tag |-> @[i].tag,
             text |-> CASE @[i].tag = "UnitsOfMeasure" ->
                             getUnitsNumber(getMUnitsParamAsText)
                        [] @[i].tag = "TimeZoneOffset" -> "0"
                        [] @[i].tag = "TimeZoneId" -> "UTC"
                        [] OTHER -> @[i].text,
             items |-> [j \in 1..Len(@[i].items) |->
                          [@[i].items[j] EXCEPT !.TimeZoneOffset = "0",
                                                !.TimeZoneId = "UTC"]]]]]

updateMetadataRow(metadataXml) ==
    [continuous |-> updateMetadataNetwork(metadataXml.continuous),
     engineering |-> updateMetadataNetwork(metadataXml.engineering)]

(***************************************************************************)
(* Unit conversion (convertUnits): whether it raises.                      *)
(***************************************************************************)
\* the keys of unitsConversions
unitsConversions ==
    {"centimeters", "decimeters", "feet", "inches", "kilometers", "meters",
     "miles", "millimeters", "nautical miles", "nautical_miles", "yards"}

\* convertUnits(distance, toUnits) raises: fromUnits is "Meters"
convertUnitsRaises(toUnits) ==
    /\ Lower(toUnits) # Lower("Meters")
    /\ Lower("Meters") \notin unitsConversions \/ Lower(toUnits) \notin unitsConversions

\* unitsConversions[units]: units per meter
unitsConversionsAt(units) ==
    CASE units = "centimeters" -> Rat(100, 1)
      [] units = "decimeters" -> Rat(10, 1)
      [] units = "feet" -> Rat(10000, 3048)
      [] units = "inches" -> Rat(10000, 254)
      [] units = "kilometers" -> Rat(1, 1000)
      [] units = "meters" -> Rat(1, 1)
      [] units = "miles" -> Rat(1000, 1609344)
      [] units = "millimeters" -> Rat(1000, 1)
      [] units = "nautical miles" -> Rat(1, 1852)
      [] units = "nautical_miles" -> Rat(1, 1852)
      [] units = "yards" -> Rat(10000, 9144)

\* what a call of convertUnits comes to: the exception it raises, the number
\* it returns, the messages it logs
Converted(exception, value, messages) ==
    [raised |-> exception, value |-> value, errors |-> messages]

\* a conversion that hands the distance back when it does not know a unit
convertUnits_Unconverted(distance, toUnits, fromUnits) ==
    IF toUnits = Absent \/ fromUnits = Absent \/ Lower(fromUnits) = Lower(toUnits)
    THEN Converted(NoException, distance, <<>>)
    ELSE IF Lower(fromUnits) \notin unitsConversions \/ Lower(toUnits) \notin unitsConversions
    THEN Converted(NoException, distance, <<>>)
    ELSE Converted(NoException,
                   Times(Over(unitsConversionsAt(Lower(toUnits)),
                              unitsConversionsAt(Lower(fromUnits))), distance),
                   <<>>)

\* a conversion that takes the distance to be in meters whatever fromUnits is
convertUnits_FromMeters(distance, toUnits, fromUnits) ==
    IF toUnits = Absent \/ fromUnits = Absent \/ Lower(fromUnits) = Lower(toUnits)
    THEN Converted(NoException, distance, <<>>)
    ELSE IF Lower(fromUnits) \notin unitsConversions \/ Lower(toUnits) \notin unitsConversions
    THEN Converted(ExecuteError(<<"Cannot calculate m tolerance and resolution.">>), distance,
                   << <<"Cannot convert from ", Lower(fromUnits), " to ", Lower(toUnits)>>,
                      <<"Cannot calculate m tolerance and resolution.">> >>)
    ELSE Converted(NoException, Times(unitsConversionsAt(Lower(toUnits)), distance), <<>>)

convertUnits(distance, toUnits, fromUnits) ==
    IF toUnits = Absent \/ fromUnits = Absent \/ Lower(fromUnits) = Lower(toUnits)
    THEN Converted(NoException, distance, <<>>)
    ELSE IF Lower(fromUnits) \notin unitsConversions \/ Lower(toUnits) \notin unitsConversions
    THEN Converted(ExecuteError(<<"Cannot calculate m tolerance and resolution.">>), distance,
                   << <<"Cannot convert from ", Lower(fromUnits), " to ", Lower(toUnits)>>,
                      <<"Cannot calculate m tolerance and resolution.">> >>)
    ELSE Converted(NoException,
                   Times(Over(unitsConversionsAt(Lower(toUnits)),
                              unitsConversionsAt(Lower(fromUnits))), distance),
                   <<>>)

(***************************************************************************)
(* The generated SpatialReference element: its tolerances and scales.      *)
(***************************************************************************)
\* no element yet
NoSpatialReferenceXml ==
    [XYTolerance |-> Rat(0, 1), XYScale |-> Rat(0, 1), ZTolerance |-> Rat(0, 1),
     ZScale |-> Rat(0, 1), MTolerance |-> Rat(0, 1), MScale |-> Rat(0, 1)]

\* the SpatialReference element of the exported scratch feature class: the
\* spatial reference's own tolerances, and the platform's scales
getSpatialReferenceXML(spatialReference) ==
    [XYTolerance |-> Rat(spatialReference.XYTolerance, 1), XYScale |-> Rat(10000, 1),
     ZTolerance |-> Rat(spatialReference.ZTolerance, 1), ZScale |-> Rat(10000, 1),
     MTolerance |-> Rat(1, 1000), MScale |-> Rat(10000, 1)]

\* the platform's exception for a property an object does not support
NameError ==
    [type |-> "NameError",
     message |-> <<"The attribute 'metersPerUnit' is not supported on this instance.">>]

\* what a call of getMetersPerUnit comes to: the exception it raises, the
\* number it returns
MetersPerUnit(exception, value) == [raised |-> exception, value |-> value]

NoMetersPerUnit == MetersPerUnit(NoException, Rat(0, 1))

\* a getMetersPerUnit that takes the equator's value whatever the type is
getMetersPerUnit_AnyType(spatialReference) ==
    IF spatialReference.hasMetersPerUnit
    THEN MetersPerUnit(NoException, Rat(spatialReference.metersPerUnit, 1))
    ELSE MetersPerUnit(NoException, Rat(1113199, 10))

\* the property, or 111319.9 for a geographic reference that has none
getMetersPerUnit(spatialReference) ==
    IF spatialReference.hasMetersPerUnit
    THEN MetersPerUnit(NoException, Rat(spatialReference.metersPerUnit, 1))
    ELSE IF Lower(spatialReference.type) = "geographic"
    THEN MetersPerUnit(NoException, Rat(1113199, 10))
    ELSE MetersPerUnit(NameError, Rat(0, 1))

\* a resolution of ten times the tolerance
newResolution_TimesTen(newTolerance) == Times(newTolerance, Rat(10, 1))

\* _setTandR: newResolution = newTolerance * 0.1
newResolution(newTolerance) == Times(newTolerance, Rat(1, 10))

\* _setTandR: 1.0/newResolution
scaleOf(newTolerance) == Over(Rat(1, 1), newResolution(newTolerance))

\* an M tolerance converted from the XY tolerance as if it were in meters
newMTolerance_InMeters(metersPerUnit) ==
    convertUnits(Rat(getXYToleranceParam.value, 1), getMUnitsParam, "Meters").value

\* newMTolerance = convertUnits(newXyTolerance * metersPerUnit, mUnits)
newMTolerance(metersPerUnit) ==
    convertUnits(Times(Rat(getXYToleranceParam.value, 1), metersPerUnit),
                 getMUnitsParam, "Meters").value

setToleranceAndResolution(spatialReferenceXml, metersPerUnit) ==
    [spatialReferenceXml EXCEPT
        !.XYTolerance = Rat(getXYToleranceParam.value, 1),
        !.XYScale = scaleOf(Rat(getXYToleranceParam.value, 1)),
        !.ZTolerance = Rat(getZToleranceParam.value, 1),
        !.ZScale = scaleOf(Rat(getZToleranceParam.value, 1)),
        !.MTolerance = newMTolerance(metersPerUnit),
        !.MScale = scaleOf(newMTolerance(metersPerUnit))]

(***************************************************************************)
(* Indexes, domains, field removal, versioning: the calls each issues.     *)
(***************************************************************************)
IsPoint(eventTable) == eventTable.IsPointEvent = "true"

IsLine(eventTable) == eventTable.IsPointEvent # "true"

NamesOf(eventTables) == [i \in 1..Len(eventTables) |-> eventTables[i].Name]

\* "if (name is not None)"
Named(eventTable) == eventTable.Name # Absent

pointEventsOf(lrsMetadataXml) ==
    NamesOf(SelectSeq(iterEventTable(lrsMetadataXml),
                      LAMBDA eventTable : Named(eventTable) /\ IsPoint(eventTable)))

\* every named event table taken for a line event
lineEventsOf_All(lrsMetadataXml) ==
    NamesOf(SelectSeq(iterEventTable(lrsMetadataXml), Named))

lineEventsOf(lrsMetadataXml) ==
    NamesOf(SelectSeq(iterEventTable(lrsMetadataXml),
                      LAMBDA eventTable : Named(eventTable) /\ IsLine(eventTable)))

allEventsOf(lrsMetadataXml) == lineEventsOf(lrsMetadataXml) \o pointEventsOf(lrsMetadataXml)

Index(name, fields, tables) == [name |-> name, fields |-> fields, tables |-> tables]

\* the index specifications of addIndexes, the mode's extra ones last
indexesOf(lrsMetadataXml) ==
    LET allEvents == allEventsOf(lrsMetadataXml)
        lineEvents == lineEventsOf(lrsMetadataXml)
    IN  << Index("ix_CTRLINEID", "CENTERLINEID", <<"P_Centerline", "P_Centerline_Sequence">>),
           Index("ix_NETWORKID", "NETWORKID", <<"P_CalibrationPoint", "P_Centerline_Sequence">>),
           Index("ix_ROUTEID", "ROUTEID",
                 <<"P_CalibrationPoint", "P_Centerline_Sequence", "P_ContinuousNetwork",
                   "P_EngineeringNetwork", "P_Redline">>),
           Index("ix_ROUTENAME", "ROUTENAME", <<"P_ContinuousNetwork", "P_EngineeringNetwork">>),
           Index("ix_LINEID", "LINEID", <<"P_EngineeringNetwork">>),
           Index("ix_LINENAME", "LINENAME", <<"P_EngineeringNetwork">>),
           Index("ix_EVENTID", "EVENTID", allEvents),
           Index("ix_FROMDATE", "FROMDATE",
                 <<"P_CalibrationPoint", "P_Centerline_Sequence", "P_ContinuousNetwork",
                   "P_EngineeringNetwork">>),
           Index("ix_TODATE", "TODATE",
                 <<"P_CalibrationPoint", "P_Centerline_Sequence", "P_ContinuousNetwork",
                   "P_EngineeringNetwork">>),
           Index("ix_DATERANGE", "FROMDATE;TODATE", allEvents) >>
        \o
        (IF getEventRegistrationNetworkParamAsText = eventRegistrationNetworkValues.ENGINEERING
         THEN << Index("ix_EROUTEID", "ENGROUTEID", allEvents),
                 Index("ix_ETOROUTEID", "ENGTOROUTEID", lineEvents) >>
         ELSE << Index("ix_CROUTEID", "CONTINROUTEID", allEvents) >>)

\* an addIndex that passes the same name for every table
addIndex_SameName(index) ==
    [k \in 1..Len(index.tables) |->
        Call("AddIndex_management", index.tables[k], index.name, 1, index.fields)]

\* addIndex: the k-th table gets the name indexName for k = 1, indexName_k after
addIndex(index) ==
    [k \in 1..Len(index.tables) |->
        Call("AddIndex_management", index.tables[k], index.name, k, index.fields)]

addIndexesCalls(lrsMetadataXml) ==
    Flatten([i \in 1..Len(indexesOf(lrsMetadataXml)) |->
                addIndex(indexesOf(lrsMetadataXml)[i])])

AssignDomain(table, field, domain) ==
    Call("AssignDomainToField_management", table, field, 0, domain)

\* a Python string's truth value, for an attribute read with get(..., None)
Truthy(text) == text # "" /\ text # Absent

addReferentMethodDomain(eventTable) ==
    (IF Truthy(eventTable.FromReferentMethodFieldName)
     THEN <<AssignDomain(eventTable.Name, eventTable.FromReferentMethodFieldName,
                         "dReferentMethod")>>
     ELSE <<>>)
    \o
    (IF Truthy(eventTable.ToReferentMethodFieldName)
     THEN <<AssignDomain(eventTable.Name, eventTable.ToReferentMethodFieldName,
                         "dReferentMethod")>>
     ELSE <<>>)

addDomainsCalls(lrsMetadataXml) ==
    Flatten([i \in 1..Len(iterEventTable(lrsMetadataXml)) |->
                addReferentMethodDomain(iterEventTable(lrsMetadataXml)[i])])
    \o << AssignDomain("P_CalibrationPoint", "NETWORKID", "dLRSNetworks"),
          AssignDomain("P_Centerline_Sequence", "NETWORKID", "dLRSNetworks"),
          AssignDomain("P_Redline", "NETWORKID", "dLRSNetworks"),
          AssignDomain("P_Redline", "ACTIVITYTYPE", "dActivityType") >>

DeleteField(table, field) == Call("DeleteField_management", table, field, 0, "")

\* line events that lose an indexed column as well
lineEventFields_WithEventId ==
    <<"ENGROUTEID", "ENGROUTENAME", "ENGTOROUTEID", "ENGTOROUTENAME", "ENGFROMM", "ENGTOM",
      "EVENTID">>

lineEventFields ==
    <<"ENGROUTEID", "ENGROUTENAME", "ENGTOROUTEID", "ENGTOROUTENAME", "ENGFROMM", "ENGTOM">>

\* point events that lose a to-route column as well
pointEventFields_WithToRoute == <<"ENGROUTEID", "ENGROUTENAME", "ENGTOROUTEID", "ENGM">>

pointEventFields == <<"ENGROUTEID", "ENGROUTENAME", "ENGM">>

removeEngineeringFieldsCalls(lrsMetadataXml) ==
    Flatten([i \in 1..Len(lineEventsOf(lrsMetadataXml)) |->
                [f \in 1..Len(lineEventFields) |->
                    DeleteField(lineEventsOf(lrsMetadataXml)[i], lineEventFields[f])]])
    \o
    Flatten([i \in 1..Len(pointEventsOf(lrsMetadataXml)) |->
                [f \in 1..Len(pointEventFields) |->
                    DeleteField(pointEventsOf(lrsMetadataXml)[i], pointEventFields[f])]])

RegisterAsVersioned(table) ==
    Call("RegisterAsVersioned_management", table, "NO_EDITS_TO_BASE", 0, "")

\* registration that does not look at the type of the workspace
registerAsVersionedCalls_AnyWorkspace ==
    << RegisterAsVersioned("Lrs_Edit_Log"),
       RegisterAsVersioned("P_Centerline_Sequence"),
       RegisterAsVersioned("P_Integrity") >>
    \o (IF getRegisterPipeSystemParam
        THEN << RegisterAsVersioned("P_PipeSystem") >>
        ELSE <<>>)

registerAsVersionedCalls ==
    IF env.workspaceType = "RemoteDatabase"
    THEN << RegisterAsVersioned("Lrs_Edit_Log"),
            RegisterAsVersioned("P_Centerline_Sequence"),
            RegisterAsVersioned("P_Integrity") >>
         \o (IF getRegisterPipeSystemParam
             THEN << RegisterAsVersioned("P_PipeSystem") >>
             ELSE <<>>)
    ELSE <<>>

(***************************************************************************)
(* The UPDM document tree and replaceSpatialReference.  The tree is the    *)
(* list of the root's children; an element is [id, tag, children], the id  *)
(* standing for the object's identity (the root is 0, the element that     *)
(* getSpatialReferenceXML returned is -1).                                 *)
(***************************************************************************)
Element(id, tag, children) == [id |-> id, tag |-> tag, children |-> children]

\* newSpatialReferenceXml as a node of the tree: one object, wherever it is inserted
newSpatialReferenceElement == Element(-1, "SpatialReference", <<>>)

\* list(updmXml.iter("SpatialReference")): document order, at any depth
RECURSIVE iterSpatialReference(_)
iterSpatialReference(elements) ==
    IF elements = <<>> THEN <<>>
    ELSE (IF Head(elements).tag = "SpatialReference" THEN <<Head(elements).id>> ELSE <<>>)
         \o iterSpatialReference(Head(elements).children)
         \o iterSpatialReference(Tail(elements))

\* {c:p for p in updmXml.iter() for c in p}
xmlParentMap(tree) ==
    LET top == {tree[i].id : i \in DOMAIN tree}
        nested == UNION {{tree[i].children[j].id : j \in DOMAIN tree[i].children} :
                            i \in DOMAIN tree}
    IN  [c \in top \cup nested |->
            IF c \in top THEN 0
            ELSE tree[CHOOSE i \in DOMAIN tree :
                         \E j \in DOMAIN tree[i].children : tree[i].children[j].id = c].id]

\* list(parent).index(spatialReferenceXml), counted from 1
indexOf(children, id) == CHOOSE i \in 1..Len(children) : children[i].id = id

\* a replacement that puts the new element last among its siblings
replaceChild_Append(children, id) ==
    Append(RemoveAt(children, indexOf(children, id)), newSpatialReferenceElement)

\* parent.remove(spatialReferenceXml); parent.insert(index, newSpatialReferenceXml)
replaceChild(children, id) ==
    InsertAt(RemoveAt(children, indexOf(children, id)), indexOf(children, id) - 1,
             newSpatialReferenceElement)

\* one pass of the loop: the parent is looked up in the map built before the loop
replaceOne(tree, parentMap, id) ==
    IF parentMap[id] = 0
    THEN replaceChild(tree, id)
    ELSE [i \in 1..Len(tree) |->
            IF tree[i].id = parentMap[id]
            THEN [tree[i] EXCEPT !.children = replaceChild(@, id)]
            ELSE tree[i]]

RECURSIVE replaceAll(_, _, _)
replaceAll(tree, parentMap, ids) ==
    IF ids = <<>> THEN tree
    ELSE replaceAll(replaceOne(tree, parentMap, Head(ids)), parentMap, Tail(ids))

replaceSpatialReference(tree) ==
    replaceAll(tree, xmlParentMap(tree), iterSpatialReference(tree))

(***************************************************************************)
(* The steps of a run.                                                     *)
(***************************************************************************)
\* the calls of a batch that are issued when its first k calls succeed: the
\* call after them is issued too, and fails
\* a failing call that is issued a second time before the run gives up
Issued_Retried(batch, k) ==
    IF k < Len(batch) THEN SubSeq(batch, 1, k + 1) \o <<batch[k + 1]>> ELSE batch

Issued(batch, k) == SubSeq(batch, 1, IF k < Len(batch) THEN k + 1 ELSE k)

str(i) == <<"1", "2", "3", "4", "5", "6", "7", "8", "9">>[i]

\* newIndexName of addIndex for the call
IndexNameText(call) ==
    IF call.n = 1 THEN <<call.arg>> ELSE <<call.arg, "_", str(call.n)>>

NoConflicts == [datasets |-> <<>>, domains |-> <<>>]

NoMetadata == [continuous |-> ChildlessNetwork, engineering |-> ChildlessNetwork]

\* createUpdm's two calls
createUpdm == <<"replaceSpatialReference", "populateUpdmWorkspace">>

\* a createLrs that patches the networks and events before it adds indexes
createLrs_RewriteFirst ==
    <<"populateLrsWorkspace", "updateMetadata", "updateEventNetwork", "addIndexes",
      "addDomains", "registerAsVersioned">>

\* createLrs's six calls
createLrs ==
    <<"populateLrsWorkspace", "updateMetadata", "addIndexes", "addDomains",
      "updateEventNetwork", "registerAsVersioned">>

\* a start that creates the LRS before the UPDM schema
start_LrsFirst == <<"validateInput", "checkNames">> \o createLrs \o createUpdm

\* the calls of start, in order
start == <<"validateInput", "checkNames">> \o createUpdm \o createLrs

\* the step that follows a step that returned
After(step) ==
    LET i == CHOOSE i \in 1..Len(start) : start[i] = step
    IN  IF i < Len(start) THEN start[i + 1] ELSE "done"

\* start: validateInput()
ValidateInput ==
    /\ pc = "validateInput"
    /\ IF validateInput = <<>>
       THEN /\ pc' = After("validateInput")
            /\ UNCHANGED <<errors, raised>>
       ELSE /\ errors' = Append(errors, validateInput)
            /\ raised' = ExecuteError(validateInput)
            /\ pc' = "failed"
    /\ UNCHANGED <<param, env, gdb, calls, warnings, branches, conflicts, lrsMetadata,
                 updmXml, newSpatialReferenceXml, srMetersPerUnit, scratch, conversion>>

\* start: checkNames(updmXml, lrsXml, workspace)
CheckNames ==
    /\ pc = "checkNames"
    /\ \E datasets \in {checkDatasetNames(<<env.updmXml, env.lrsXml>>)},
          domains \in {checkDomainNames(<<env.updmXml, env.lrsXml>>)} :
         \E batch \in {removeCalls(datasets, domains)} :
           /\ conflicts' = [datasets |-> datasets, domains |-> domains]
           /\ IF Len(datasets) = 0 /\ Len(domains) = 0
              THEN /\ pc' = After("checkNames")
                   /\ UNCHANGED <<gdb, calls, errors, raised>>
              ELSE IF env.overwriteOutput
              THEN \E k \in 0..Len(batch) :
                     /\ \A i \in 1..k : DeleteCanSucceed(batch, i)
                     /\ calls' = calls \o Issued(batch, k)
                     /\ gdb' = [gdb EXCEPT
                           !.datasets = @ \ DeletedNames(batch, k, "Delete_management"),
                           !.domains = @ \ DeletedNames(batch, k, "DeleteDomain_management")]
                     /\ IF k = Len(batch)
                        THEN /\ pc' = After("checkNames")
                             /\ UNCHANGED <<errors, raised>>
                        ELSE /\ errors' = Append(errors,
                                   IF batch[k + 1].op = "Delete_management"
                                   THEN <<"Unable to remove item: ", batch[k + 1].target>>
                                   ELSE <<"Unable to remove domain: ", batch[k + 1].target>>)
                             /\ raised' = PlatformError(batch[k + 1])
                             /\ pc' = "failed"
              ELSE /\ errors' = Append(errors, ConflictMessage(datasets, domains))
                   /\ raised' = ExecuteError(
                          <<"Some items already exist in the workspace.">>
                              \o datasets \o domains)
                   /\ pc' = "failed"
                   /\ UNCHANGED <<gdb, calls>>
    /\ UNCHANGED <<param, env, warnings, branches, lrsMetadata,
                 updmXml, newSpatialReferenceXml, srMetersPerUnit, scratch, conversion>>

\* the warnings of the best-effort deletion of scratch items
\* (deleteGdbItem, deleteFile): an item that was never created cannot be deleted
ScratchWarnings(items, created) ==
    LET failing == SelectSeq(items,
                       LAMBDA item : env.scratchDeleteFails \/ item \notin created)
    IN  [i \in 1..Len(failing) |-> <<"Could not delete ", failing[i]>>]

\* deleteGdbItem(item), deleteFile(item): the deletion each attempts
deleteGdbItem(item) == <<Call("Delete_management", item, "", 0, "scratchGDB")>>

\* a deleteFile that attempts nothing
deleteFile_Skipped(item) == <<>>

deleteFile(item) == <<Call("os.remove", item, "", 0, "scratchFolder")>>

CreateScratchName(name, workspace) == Call("CreateScratchName", name, "", 0, workspace)

\* ElementTree.write(xmlPath, encoding="utf-8")
write(xmlPath) == Call("write", xmlPath, "", 0, "utf-8")

ImportXMLWorkspaceDocument(xmlPath, importType) ==
    Call("ImportXMLWorkspaceDocument_management", xmlPath, "", 0, importType)

\* a local variable read before it was bound
UnboundLocalError(name) == [type |-> "UnboundLocalError", message |-> <<name>>]

\* a file that could not be written
IOError(call) == [type |-> "IOError", message |-> <<call.op, call.target>>]

\* the targets of a list of calls
Targets(batch) == [i \in 1..Len(batch) |-> batch[i].target]

\* getSpatialReferenceXML: the two scratch names, then the body of its try
getSpatialReferenceXMLCalls ==
    << CreateScratchName("srFC", "scratchGDB"),
       CreateScratchName("srFC.xml", "scratchFolder"),
       Call("CreateFeatureclass_management", "srFC", "POLYLINE", 0, "scratchGDB"),
       Call("ExportXMLWorkspaceDocument_management", "srFC", "srFC.xml", 0, "SCHEMA_ONLY") >>

\* createUpdm: replaceSpatialReference(updmXml)
ReplaceSpatialReference ==
    /\ pc = "replaceSpatialReference"
    /\ \E batch \in {getSpatialReferenceXMLCalls} :
         \E k \in 0..Len(batch) :
           \E created \in {IF k < 3 THEN {} ELSE IF k = 3 THEN {"srFC"}
                           ELSE {"srFC", "srFC.xml"}},
              finally \in {IF k < 2 THEN <<>>
                           ELSE deleteGdbItem("srFC") \o deleteFile("srFC.xml")} :
             /\ calls' = calls \o Issued(batch, k) \o finally
             /\ scratch' = scratch \cup created
             /\ warnings' = warnings \o ScratchWarnings(Targets(finally), created)
             /\ IF k < Len(batch)
                THEN /\ raised' = PlatformError(batch[k + 1])
                     /\ pc' = "failed"
                     /\ UNCHANGED <<errors, updmXml, newSpatialReferenceXml,
                                    srMetersPerUnit>>
                ELSE IF getMetersPerUnit(getSpatialReferenceParam).raised # NoException
                THEN /\ raised' = getMetersPerUnit(getSpatialReferenceParam).raised
                     /\ pc' = "failed"
                     /\ srMetersPerUnit' = getMetersPerUnit(getSpatialReferenceParam)
                     /\ newSpatialReferenceXml' =
                            getSpatialReferenceXML(getSpatialReferenceParam)
                     /\ UNCHANGED <<errors, updmXml>>
                ELSE IF convertUnitsRaises(getMUnitsParam)
                THEN /\ srMetersPerUnit' = getMetersPerUnit(getSpatialReferenceParam)
                     /\ errors' = errors \o
                          << <<"Cannot convert from ", Lower("Meters"), " to ",
                               Lower(getMUnitsParam)>>,
                             <<"Cannot calculate m tolerance and resolution.">> >>
                     /\ raised' = ExecuteError(<<"Cannot calculate m tolerance and resolution.">>)
                     /\ pc' = "failed"
                     /\ newSpatialReferenceXml' =
                            getSpatialReferenceXML(getSpatialReferenceParam)
                     /\ UNCHANGED updmXml
                ELSE /\ newSpatialReferenceXml' =
                            setToleranceAndResolution(
                                getSpatialReferenceXML(getSpatialReferenceParam),
                                getMetersPerUnit(getSpatialReferenceParam).value)
                     /\ srMetersPerUnit' = getMetersPerUnit(getSpatialReferenceParam)
                     /\ updmXml' = replaceSpatialReference(updmXml)
                     /\ pc' = After("replaceSpatialReference")
                     /\ UNCHANGED <<errors, raised>>
    /\ UNCHANGED <<param, env, gdb, branches, conflicts, lrsMetadata, conversion>>

\* populateUpdmWorkspace, populateLrsWorkspace: the scratch name, the file,
\* the import
populateWorkspaceCalls(xmlPath, importType) ==
    << CreateScratchName(xmlPath, "scratchFolder"), write(xmlPath),
       ImportXMLWorkspaceDocument(xmlPath, importType) >>

\* the exception the function ends with when call k + 1 of its three fails:
\* without a scratch name the finally block reads an unbound xmlPath
populateWorkspaceRaises(batch, k) ==
    IF k = 0 THEN UnboundLocalError("xmlPath")
    ELSE IF k = 1 THEN IOError(batch[2])
    ELSE PlatformError(batch[3])

\* createUpdm: populateUpdmWorkspace(workspace, updmXml)
PopulateUpdmWorkspace ==
    /\ pc = "populateUpdmWorkspace"
    /\ \E batch \in {populateWorkspaceCalls("updm.xml", "SCHEMA_ONLY")} :
         \E k \in 0..Len(batch) :
           \E created \in {IF k < 2 THEN {} ELSE {"updm.xml"}},
              finally \in {IF k = 0 THEN <<>> ELSE deleteFile("updm.xml")} :
             /\ calls' = calls \o Issued(batch, k) \o finally
             /\ scratch' = scratch \cup created
             /\ warnings' = warnings \o ScratchWarnings(Targets(finally), created)
             /\ IF k = Len(batch)
                THEN /\ gdb' = [gdb EXCEPT
                          !.datasets = @ \cup Range(DeclaredNames(env.updmXml.datasets)),
                          !.domains = @ \cup Range(env.updmXml.domains)]
                     /\ pc' = After("populateUpdmWorkspace")
                     /\ UNCHANGED raised
                ELSE /\ raised' = populateWorkspaceRaises(batch, k)
                     /\ pc' = "failed"
                     /\ UNCHANGED gdb
    /\ UNCHANGED <<param, env, errors, branches, conflicts, lrsMetadata,
                   updmXml, newSpatialReferenceXml, srMetersPerUnit,
                   conversion>>

\* createLrs: populateLrsWorkspace(workspace, lrsXml)
PopulateLrsWorkspace ==
    /\ pc = "populateLrsWorkspace"
    /\ \E batch \in {populateWorkspaceCalls("lrs.xml", "DATA")} :
         \E k \in 0..Len(batch) :
           \E created \in {IF k < 2 THEN {} ELSE {"lrs.xml"}},
              finally \in {IF k = 0 THEN <<>> ELSE deleteFile("lrs.xml")} :
             /\ calls' = calls \o Issued(batch, k) \o finally
             /\ scratch' = scratch \cup created
             /\ warnings' = warnings \o ScratchWarnings(Targets(finally), created)
             /\ IF k = Len(batch)
                THEN /\ gdb' = [gdb EXCEPT
                          !.datasets = @ \cup Range(DeclaredNames(env.lrsXml.datasets)),
                          !.domains = @ \cup Range(env.lrsXml.domains),
                          !.Lrs_Metadata = env.lrsXml.Lrs_Metadata,
                          !.Lrs_Event_Behavior = env.lrsXml.Lrs_Event_Behavior]
                     /\ pc' = After("populateLrsWorkspace")
                     /\ UNCHANGED raised
                ELSE /\ raised' = populateWorkspaceRaises(batch, k)
                     /\ pc' = "failed"
                     /\ UNCHANGED gdb
    /\ UNCHANGED <<param, env, errors, branches, conflicts, lrsMetadata,
                   updmXml, newSpatialReferenceXml, srMetersPerUnit,
                   conversion>>

\* the rows of a table after an update cursor has rewritten and stored the
\* first k; results[i] is the rewrite of row i
CursorRows(rows, results, k) ==
    [i \in 1..Len(rows) |-> IF i <= k THEN results[i].xml ELSE rows[i]]

\* the first row whose rewrite raises, Len(results) + 1 if none does
FirstRaising(results) ==
    IF \E i \in 1..Len(results) : results[i].raised # NoException
    THEN CHOOSE i \in 1..Len(results) :
            /\ results[i].raised # NoException
            /\ \A j \in 1..(i - 1) : results[j].raised = NoException
    ELSE Len(results) + 1

updateRowCalls(table, field, rows) ==
    [i \in 1..Len(rows) |-> Call("updateRow", table, field, i, "")]

\* "with arcpy.da.UpdateCursor(table, [field]) as cursor: for row in cursor:"
\* rewrite each row and store it; the first k rows are stored, then either the
\* loop is over, or the rewrite of row k + 1 raises, or its updateRow does
CursorUpdate(table, field, rewritten, next) ==
    \E rows \in {gdb[table]}, results \in {rewritten} :
      \E bad \in {FirstRaising(results)}, batch \in {updateRowCalls(table, field, rows)} :
        \E k \in 0..(bad - 1) :
          /\ gdb' = [gdb EXCEPT ![table] = CursorRows(rows, results, k)]
          /\ IF k = Len(rows)
             THEN /\ calls' = calls \o batch
                  /\ pc' = next
                  /\ UNCHANGED raised
             ELSE IF k = bad - 1
             THEN /\ calls' = calls \o SubSeq(batch, 1, k)
                  /\ raised' = results[bad].raised
                  /\ pc' = "failed"
             ELSE /\ calls' = calls \o SubSeq(batch, 1, k + 1)
                  /\ raised' = PlatformError(batch[k + 1])
                  /\ pc' = "failed"

\* the number of UnitsOfMeasure elements of a document
UnitsOfMeasureCount(metadataXml) ==
    Len(SelectSeq(metadataXml.continuous.children \o metadataXml.engineering.children,
                  LAMBDA child : child.tag = "UnitsOfMeasure"))

updateMetadataResult(metadataXml) == RowResult(NoException, updateMetadataRow(metadataXml))

\* createLrs: lrsMetadata = updateMetadata()
UpdateMetadata ==
    /\ pc = "updateMetadata"
    /\ CursorUpdate("Lrs_Metadata", "Metadata",
                    [i \in 1..Len(gdb.Lrs_Metadata) |->
                        updateMetadataResult(gdb.Lrs_Metadata[i])],
                    After("updateMetadata"))
    /\ lrsMetadata' = IF pc' # "failed" /\ Len(gdb.Lrs_Metadata) > 0
                      THEN updateMetadataRow(gdb.Lrs_Metadata[Len(gdb.Lrs_Metadata)])
                      ELSE lrsMetadata
    /\ warnings' = IF getUnitsNumber(getMUnitsParamAsText) = "0"
                   THEN warnings \o
                        Flatten([r \in 1..Len(gdb.Lrs_Metadata) |->
                            [i \in 1..UnitsOfMeasureCount(gdb.Lrs_Metadata[r]) |->
                                <<"Cannot get constant value for units.">>]])
                   ELSE warnings
    /\ UNCHANGED <<param, env, errors, branches, conflicts,
                 updmXml, newSpatialReferenceXml, srMetersPerUnit, scratch, conversion>>

\* createLrs: addIndexes(lrsMetadata)
AddIndexes ==
    /\ pc = "addIndexes"
    /\ \E batch \in {addIndexesCalls(lrsMetadata)} :
           \E k \in 0..Len(batch) :
             /\ calls' = calls \o Issued(batch, k)
             /\ IF k = Len(batch)
                THEN /\ pc' = After("addIndexes")
                     /\ UNCHANGED <<errors, raised>>
                ELSE /\ errors' = Append(errors,
                            <<"Couldn't add index ">> \o IndexNameText(batch[k + 1])
                                \o <<" to ", batch[k + 1].target>>)
                     /\ raised' = PlatformError(batch[k + 1])
                     /\ pc' = "failed"
    /\ UNCHANGED <<param, env, gdb, warnings, branches, conflicts, lrsMetadata,
                 updmXml, newSpatialReferenceXml, srMetersPerUnit, scratch, conversion>>

\* createLrs: addDomains(lrsMetadata)
AddDomains ==
    /\ pc = "addDomains"
    /\ \E batch \in {addDomainsCalls(lrsMetadata)} :
           \E k \in 0..Len(batch) :
             /\ calls' = calls \o Issued(batch, k)
             /\ IF k = Len(batch)
                THEN /\ pc' = After("addDomains")
                     /\ UNCHANGED raised
                ELSE /\ raised' = PlatformError(batch[k + 1])
                     /\ pc' = "failed"
    /\ UNCHANGED <<param, env, gdb, errors, warnings, branches, conflicts, lrsMetadata,
                 updmXml, newSpatialReferenceXml, srMetersPerUnit, scratch, conversion>>

\* createLrs: updateEventNetwork(lrsMetadata), the choice of the branch
UpdateEventNetwork ==
    /\ pc = "updateEventNetwork"
    /\ LET eventNetwork == getEventRegistrationNetworkParamAsText
       IN  IF eventNetwork = eventRegistrationNetworkValues.CONTINUOUS
           THEN /\ branches' = Append(branches, "CONTINUOUS")
                /\ pc' = "updateEventBehaviorTable"
           ELSE IF eventNetwork = eventRegistrationNetworkValues.ENGINEERING
           THEN /\ branches' = Append(branches, "ENGINEERING")
                /\ pc' = "setDerivedNetwork"
           ELSE /\ pc' = After("updateEventNetwork")
                /\ UNCHANGED branches
    /\ UNCHANGED <<param, env, gdb, calls, errors, warnings, raised, conflicts, lrsMetadata,
                 updmXml, newSpatialReferenceXml, srMetersPerUnit, scratch, conversion>>

\* a rewrite that leaves the row's network as it was
setNetworkId_Keep(row) == RowResult(NoException, row)

\* updateEventBehaviorTable: "row[0] = 1"
setNetworkId(row) == RowResult(NoException, 1)

\* updateEventNetwork, CONTINUOUS: updateEventBehaviorTable()
UpdateEventBehaviorTable ==
    /\ pc = "updateEventBehaviorTable"
    /\ CursorUpdate("Lrs_Event_Behavior", "NetworkId",
                    [i \in 1..Len(gdb.Lrs_Event_Behavior) |->
                        setNetworkId(gdb.Lrs_Event_Behavior[i])],
                    "removeEngineeringFields")
    /\ UNCHANGED <<param, env, errors, warnings, branches, conflicts, lrsMetadata,
                 updmXml, newSpatialReferenceXml, srMetersPerUnit, scratch, conversion>>

\* updateEventNetwork, CONTINUOUS: removeEngineeringFields(lrsMetadata)
RemoveEngineeringFields ==
    /\ pc = "removeEngineeringFields"
    /\ \E batch \in {removeEngineeringFieldsCalls(lrsMetadata)} :
           \E k \in 0..Len(batch) :
             /\ calls' = calls \o Issued(batch, k)
             /\ IF k = Len(batch)
                THEN /\ pc' = "updateContinuousMetadata"
                     /\ UNCHANGED raised
                ELSE /\ raised' = PlatformError(batch[k + 1])
                     /\ pc' = "failed"
    /\ UNCHANGED <<param, env, gdb, errors, warnings, branches, conflicts, lrsMetadata,
                 updmXml, newSpatialReferenceXml, srMetersPerUnit, scratch, conversion>>

\* the document as it was imported, without what updateMetadata stored
fromstring_Imported(row) == env.lrsXml.Lrs_Metadata[row]

\* "mv = row[0] ... ET.fromstring(mv.tobytes())": the mode rewrite parses the
\* document the cursor reads from the table
fromstring(row) == gdb.Lrs_Metadata[row]

\* updateEventNetwork, CONTINUOUS: updateContinuousMetadata()
UpdateContinuousMetadata ==
    /\ pc = "updateContinuousMetadata"
    /\ CursorUpdate("Lrs_Metadata", "Metadata",
                    [i \in 1..Len(gdb.Lrs_Metadata) |->
                        updateContinuousMetadataRow(fromstring(i))],
                    After("updateEventNetwork"))
    /\ UNCHANGED <<param, env, errors, warnings, branches, conflicts, lrsMetadata,
                 updmXml, newSpatialReferenceXml, srMetersPerUnit, scratch, conversion>>

\* updateEventNetwork, ENGINEERING: setDerivedNetwork()
SetDerivedNetwork ==
    /\ pc = "setDerivedNetwork"
    /\ CursorUpdate("Lrs_Metadata", "Metadata",
                    [i \in 1..Len(gdb.Lrs_Metadata) |->
                        setDerivedNetworkRow(fromstring(i))],
                    After("updateEventNetwork"))
    /\ UNCHANGED <<param, env, errors, warnings, branches, conflicts, lrsMetadata,
                 updmXml, newSpatialReferenceXml, srMetersPerUnit, scratch, conversion>>

\* createLrs: registerAsVersioned(workspace)
RegisterVersioned ==
    /\ pc = "registerAsVersioned"
    /\ \E batch \in {registerAsVersionedCalls} :
           \E k \in 0..Len(batch) :
             /\ calls' = calls \o Issued(batch, k)
             /\ IF k = Len(batch)
                THEN /\ pc' = After("registerAsVersioned")
                     /\ UNCHANGED raised
                ELSE /\ raised' = PlatformError(batch[k + 1])
                     /\ pc' = "failed"
    /\ UNCHANGED <<param, env, gdb, errors, warnings, branches, conflicts, lrsMetadata,
                 updmXml, newSpatialReferenceXml, srMetersPerUnit, scratch, conversion>>

Next ==
    \/ ValidateInput
    \/ CheckNames
    \/ ReplaceSpatialReference
    \/ PopulateUpdmWorkspace
    \/ PopulateLrsWorkspace
    \/ UpdateMetadata
    \/ AddIndexes
    \/ AddDomains
    \/ UpdateEventNetwork
    \/ UpdateEventBehaviorTable
    \/ RemoveEngineeringFields
    \/ UpdateContinuousMetadata
    \/ SetDerivedNetwork
    \/ RegisterVersioned

(***************************************************************************)
(* The inputs of a run.                                                    *)
(***************************************************************************)
GDBPaths == {"", "C:/out.gdb"}

SpatialReferences == {NoneSR} \cup {SR(t, t) : t \in 0..MaxTolerance}

MeasureUnits == {"", "Meters", "furlongs"}

Tolerances == {NoneNumber} \cup {Number(n) : n \in (-1)..MaxTolerance}

NetworkModes == {"", "ENGINEERING", "CONTINUOUS", "continuous"}

Params ==
    [outputGDB : GDBPaths, spatialReference : SpatialReferences, mUnits : MeasureUnits,
     xyTolerance : Tolerances, zTolerance : Tolerances,
     eventRegistrationNetwork : NetworkModes, registerPipeSystem : BOOLEAN]

\* the parameters of a plain run in either mode
NominalParams ==
    {p \in Params :
        /\ p.outputGDB = "C:/out.gdb"
        /\ p.spatialReference = SR(1, 1)
        /\ p.mUnits = ""
        /\ p.xyTolerance = Number(1)
        /\ p.zTolerance = Number(1)
        /\ p.eventRegistrationNetwork \in {"ENGINEERING", "CONTINUOUS"}}

\* the event tables a network can hold: n tables, each a point or a line event,
\* named in registration order
EventNames ==
    <<"P_Anomaly", "P_CenterlineAccuracy", "P_ConsequenceSegment", "P_DOTClass",
      "P_Elevation", "P_InlineInspection", "P_PipeCrossing", "P_Valve">>

EventTableLists(first, max) ==
    UNION {
        {[i \in 1..n |-> IF kinds[i] THEN PointEvent(EventNames[first + i])
                         ELSE LineEvent(EventNames[first + i])] :
            kinds \in [1..n -> BOOLEAN]} :
        n \in 0..max}

\* the metadata documents shaped like the embedded ones: every event table is
\* registered to the engineering network
EmbeddedMetadata ==
    {[continuous |-> Network(<<>>), engineering |-> Network(events)] :
        events \in EventTableLists(0, MaxEngEvents)}

\* any metadata document: either network may hold event tables, or no child
AnyNetworks(first, max) ==
    {ChildlessNetwork} \cup {Network(events) : events \in EventTableLists(first, max)}

AnyMetadata ==
    {[continuous |-> c, engineering |-> e] :
        c \in AnyNetworks(MaxEngEvents, MaxContEvents),
        e \in AnyNetworks(0, MaxEngEvents)}

NominalMetadata ==
    [continuous |-> Network(<<>>),
     engineering |-> Network(<<PointEvent(EventNames[1]), LineEvent(EventNames[2])>>)]

\* the lists of tags the children of a child of the root can have
NestedTags == UNION {[1..n -> {"SpatialReference", "Field"}] : n \in 0..MaxNested}

\* a child of the root: a SpatialReference, or an element with children
TopShapes ==
    {[tag |-> "SpatialReference", nested |-> <<>>]}
        \cup {[tag |-> "DataElement", nested |-> tags] : tags \in NestedTags}

\* the document trees: child i of the root is element i, its child j is 10 i + j
DocumentTrees ==
    UNION {
        {[i \in 1..n |->
            Element(i, shapes[i].tag,
                    [j \in 1..Len(shapes[i].nested) |->
                        Element(10 * i + j, shapes[i].nested[j], <<>>)])] :
            shapes \in [1..n -> TopShapes]} :
        n \in 0..MaxChildren}

NominalTree ==
    <<Element(1, "DataElement", <<Element(11, "SpatialReference", <<>>)>>)>>

\* the UPDM document: a feature dataset with a feature class in it, and a table
UpdmXml ==
    [datasets |-> <<DataElement("P_Integrity", <<"P_Anomaly">>),
                    DataElement("P_PipeSystem", <<>>)>>,
     domains |-> <<"dUPDM">>,
     root |-> NominalTree]

\* the LRS document, with its metadata row and its behavior rows
LrsXml(metadata) ==
    [datasets |-> <<DataElement("Lrs_Metadata", <<>>)>>,
     domains |-> <<"dLRSNetworks">>,
     Lrs_Metadata |-> <<metadata>>,
     Lrs_Event_Behavior |-> <<2, 2>>]

\* an LRS document that declares a table the UPDM document declares too
LrsXmlWithPipeSystem(metadata) ==
    [LrsXml(metadata) EXCEPT !.datasets = Append(@, DataElement("P_PipeSystem", <<>>))]

DatasetNames == {"P_Integrity", "P_Anomaly", "P_PipeSystem", "Lrs_Metadata"}

DomainNames == {"dUPDM", "dLRSNetworks"}

Env(overwriteOutput, workspaceType, lrsXml, datasets, domains, scratchDeleteFails) ==
    [overwriteOutput |-> overwriteOutput, workspaceType |-> workspaceType,
     updmXml |-> UpdmXml, lrsXml |-> lrsXml,
     existingDatasets |-> datasets, existingDomains |-> domains,
     scratchDeleteFails |-> scratchDeleteFails]

\* every parameter combination, in a workspace with at most one conflict
ParamRuns ==
    {<<p, Env(TRUE, "LocalDatabase", LrsXml(NominalMetadata), d, {}, FALSE)>> :
        p \in Params, d \in {{}, {"P_PipeSystem"}}}

\* every workspace content, with nominal parameters
WorkspaceRuns(lrsXmls) ==
    {<<p, Env(o, "LocalDatabase", x, d, m, FALSE)>> :
        p \in NominalParams, o \in BOOLEAN, x \in lrsXmls,
        d \in SUBSET DatasetNames, m \in SUBSET DomainNames}

\* every metadata document, with nominal parameters in an empty workspace
MetadataRuns(metadatas) ==
    {<<p, Env(FALSE, w, LrsXml(x), {}, {}, f)>> :
        p \in NominalParams, w \in {"LocalDatabase", "RemoteDatabase"},
        x \in metadatas, f \in BOOLEAN}

\* every document tree, in an ENGINEERING run over an LRS without event tables
DocumentRuns ==
    {<<p, [Env(FALSE, "LocalDatabase",
               LrsXml([continuous |-> Network(<<>>), engineering |-> Network(<<>>)]),
               {}, {}, FALSE) EXCEPT !.updmXml.root = tree]>> :
        p \in {q \in NominalParams :
                  q.eventRegistrationNetwork = "ENGINEERING" /\ ~q.registerPipeSystem},
        tree \in DocumentTrees}

\* every content of Lrs_Event_Behavior, with nominal parameters
BehaviorRuns ==
    {<<p, Env(FALSE, "LocalDatabase",
              [LrsXml(NominalMetadata) EXCEPT !.Lrs_Event_Behavior = rows],
              {}, {}, FALSE)>> :
        p \in NominalParams,
        rows \in UNION {[1..n -> 1..MaxNetworkId] : n \in 0..MaxBehaviorRows}}

\* no conversion is made on its own
NoConversion ==
    [pc |-> "none", distance |-> Rat(0, 1), fromUnits |-> "", toUnits |-> "",
     there |-> Converted(NoException, Rat(0, 1), <<>>),
     back |-> Converted(NoException, Rat(0, 1), <<>>)]

InitWith(runs) ==
    /\ \E run \in runs :
         /\ param = run[1]
         /\ env = run[2]
         /\ gdb = [datasets |-> run[2].existingDatasets,
                   domains |-> run[2].existingDomains,
                   Lrs_Metadata |-> <<>>,
                   Lrs_Event_Behavior |-> <<>>]
    /\ pc = "validateInput"
    /\ calls = <<>>
    /\ errors = <<>>
    /\ warnings = <<>>
    /\ raised = NoException
    /\ branches = <<>>
    /\ conflicts = NoConflicts
    /\ lrsMetadata = NoMetadata
    /\ updmXml = env.updmXml.root
    /\ newSpatialReferenceXml = NoSpatialReferenceXml
    /\ srMetersPerUnit = NoMetersPerUnit
    /\ scratch = {}
    /\ conversion = NoConversion

\* the tool as shipped: its embedded documents
Init ==
    InitWith(ParamRuns \cup WorkspaceRuns({LrsXml(NominalMetadata)})
                 \cup MetadataRuns(EmbeddedMetadata))

Spec == Init /\ [][Next]_vars

\* the measure units: the keys of the conversion table, names in other case,
\* the unset parameter, a name the table does not have
AnyMeasureUnits == unitsConversions \cup {"", "Meters", "Kilometers", "NAUTICAL_MILES", "furlongs"}

\* projected and geographic references, with and without metersPerUnit
AnySpatialReferences ==
    {SpatialReference(1, 1, type, TRUE, m) :
        type \in {"Projected", "Geographic"}, m \in 1..MaxMetersPerUnit}
    \cup {SpatialReference(1, 1, type, FALSE, 0) : type \in {"Projected", "Geographic"}}

\* every measure unit and spatial reference, in an ENGINEERING run over an LRS
\* without event tables
UnitRuns ==
    {<<[p EXCEPT !.mUnits = units, !.spatialReference = sr,
                 !.xyTolerance = Number(xy)],
       Env(FALSE, "LocalDatabase",
           LrsXml([continuous |-> Network(<<>>), engineering |-> Network(<<>>)]),
           {}, {}, FALSE)>> :
        p \in {q \in NominalParams :
                  q.eventRegistrationNetwork = "ENGINEERING" /\ ~q.registerPipeSystem},
        units \in AnyMeasureUnits, sr \in AnySpatialReferences, xy \in 1..MaxTolerance}

\* a document stored with other units and another time zone
Zoned(network) ==
    [network EXCEPT !.children =
        [i \in 1..Len(@) |->
            [tag |-> @[i].tag,
             text |-> CASE @[i].tag = "UnitsOfMeasure" -> "0"
                        [] @[i].tag = "TimeZoneOffset" -> "-480"
                        [] @[i].tag = "TimeZoneId" -> "Pacific Standard Time"
                        [] OTHER -> @[i].text,
             items |-> [j \in 1..Len(@[i].items) |->
                          [@[i].items[j] EXCEPT
                              !.TimeZoneOffset = "-480",
                              !.TimeZoneId = "Pacific Standard Time"]]]]]

ZonedMetadata ==
    [continuous |-> Zoned(NominalMetadata.continuous),
     engineering |-> Zoned(NominalMetadata.engineering)]

\* either mode and measure unit, over a document of another time zone
ZonedRuns ==
    {<<[p EXCEPT !.mUnits = units],
       Env(FALSE, "LocalDatabase", LrsXml(ZonedMetadata), {}, {}, FALSE)>> :
        p \in {q \in NominalParams : ~q.registerPipeSystem},
        units \in {"", "Meters"}}

\* the same program over any measure unit and spatial reference
InitAnyUnits == InitWith(UnitRuns \cup ZonedRuns \cup MetadataRuns({NominalMetadata}))

SpecAnyUnits == InitAnyUnits /\ [][Next]_vars

\* the same program over any UPDM document tree
InitAnyDocument == InitWith(DocumentRuns \cup MetadataRuns({NominalMetadata}))

SpecAnyDocument == InitAnyDocument /\ [][Next]_vars

\* the same program over any pair of documents and any stored metadata
InitAnyInput ==
    InitWith(ParamRuns
                 \cup WorkspaceRuns({LrsXml(NominalMetadata),
                                     LrsXmlWithPipeSystem(NominalMetadata)})
                 \cup MetadataRuns(AnyMetadata) \cup BehaviorRuns)

SpecAnyInput == InitAnyInput /\ [][Next]_vars

(***************************************************************************)
(* convertUnits on its own: a distance is converted from one unit to       *)
(* another and back.                                                       *)
(***************************************************************************)
\* the unit names: the keys of the table, names in other case, a name the
\* table lacks, None
ConversionUnits == unitsConversions \cup {"FEET", "Meters", "furlongs", Absent}

Distances ==
    {Rat(n, d) : n \in (-MaxDistance)..MaxDistance, d \in 1..MaxDistance}

\* no run of the tool is under way
InitConvertUnits ==
    /\ param = CHOOSE p \in NominalParams : TRUE
    /\ env = Env(FALSE, "LocalDatabase", LrsXml(NominalMetadata), {}, {}, FALSE)
    /\ gdb = [datasets |-> {}, domains |-> {}, Lrs_Metadata |-> <<>>,
              Lrs_Event_Behavior |-> <<>>]
    /\ pc = "none"
    /\ calls = <<>>
    /\ errors = <<>>
    /\ warnings = <<>>
    /\ raised = NoException
    /\ branches = <<>>
    /\ conflicts = NoConflicts
    /\ lrsMetadata = NoMetadata
    /\ updmXml = NominalTree
    /\ newSpatialReferenceXml = NoSpatialReferenceXml
    /\ srMetersPerUnit = NoMetersPerUnit
    /\ scratch = {}
    /\ conversion \in
          {[NoConversion EXCEPT !.pc = "there", !.distance = d,
                               !.fromUnits = a, !.toUnits = b] :
              d \in Distances, a \in ConversionUnits, b \in ConversionUnits}

\* convertUnits(distance, toUnits, fromUnits)
ConvertThere ==
    /\ conversion.pc = "there"
    /\ \E there \in {convertUnits(conversion.distance, conversion.toUnits,
                                  conversion.fromUnits)} :
         conversion' = [conversion EXCEPT
                           !.there = there,
                           !.pc = IF there.raised = NoException THEN "back" ELSE "failed"]
    /\ UNCHANGED <<param, env, pc, gdb, calls, errors, warnings, raised, branches,
                   conflicts, lrsMetadata, updmXml, newSpatialReferenceXml, srMetersPerUnit, scratch>>

\* convertUnits(result, fromUnits, toUnits): the way back
ConvertBack ==
    /\ conversion.pc = "back"
    /\ \E back \in {convertUnits(conversion.there.value, conversion.fromUnits,
                                 conversion.toUnits)} :
         conversion' = [conversion EXCEPT
                           !.back = back,
                           !.pc = IF back.raised = NoException THEN "done" ELSE "failed"]
    /\ UNCHANGED <<param, env, pc, gdb, calls, errors, warnings, raised, branches,
                   conflicts, lrsMetadata, updmXml, newSpatialReferenceXml, srMetersPerUnit, scratch>>

NextConvertUnits ==
    \/ ConvertThere
    \/ ConvertBack

SpecConvertUnits == InitConvertUnits /\ [][NextConvertUnits]_vars

(***************************************************************************)
(* Properties.                                                             *)
(***************************************************************************)
\* the stored metadata document, and the one the LRS document carried
StoredMetadata == gdb.Lrs_Metadata[1]

ImportedMetadata == env.lrsXml.Lrs_Metadata[1]

Mode == IF param.eventRegistrationNetwork = "" THEN "ENGINEERING"
        ELSE param.eventRegistrationNetwork

\* the calls that change the output geodatabase
IsMutatingCall(call) ==
    \/ call.op \in {"DeleteDomain_management", "ImportXMLWorkspaceDocument_management",
                    "updateRow", "AddIndex_management", "AssignDomainToField_management",
                    "DeleteField_management", "RegisterAsVersioned_management"}
    \/ call.op = "Delete_management" /\ call.detail # "scratchGDB"

IsConflictDelete(call) ==
    \/ call.op = "DeleteDomain_management"
    \/ call.op = "Delete_management" /\ call.detail # "scratchGDB"

IsImport(call) == call.op = "ImportXMLWorkspaceDocument_management"

\* no call of the run so far is among those of the given operations
NoMutatingCall == \A i \in 1..Len(calls) : ~IsMutatingCall(calls[i])

NoConflictDelete == \A i \in 1..Len(calls) : ~IsConflictDelete(calls[i])

NoImport == \A i \in 1..Len(calls) : ~IsImport(calls[i])

\* the messages validateInput raises with
ValidationMessages ==
    {<<"Please provide an Output GDB.">>,
     <<"Please provide a Spatial Reference.">>,
     <<"Please provide a Measure Unit.">>,
     <<"Please provide an XY Tolerance that is greater than 0.">>,
     <<"Please provide a Z Tolerance that is greater than 0.">>,
     <<"Please provide an Event Measure Storage.">>,
     <<"Event Measure Storage must be one of the following: ", "ENGINEERING", "CONTINUOUS">>}

\* the run ended in validateInput
RaisedInValidation ==
    /\ pc = "failed"
    /\ calls = <<>>
    /\ raised.type = "ExecuteError"
    /\ raised.message \in ValidationMessages
    /\ errors = <<raised.message>>

\* C1: a run that got past the network/event patch stage executed exactly one
\* of its two branches, the one its mode names; no run executes both, and the
\* stage is only reached with a mode of the two-entry enum.
C1_ExactlyOneBranch ==
    /\ Len(branches) <= 1
    /\ pc = "updateEventNetwork" => Mode \in {"ENGINEERING", "CONTINUOUS"}
    /\ pc \in {"registerAsVersioned", "done"} => branches = <<Mode>>

C1_Witness ==
    /\ pc = "done"
    /\ param.eventRegistrationNetwork = ""
    /\ branches = <<"ENGINEERING">>

\* the tolerances validateInput tests: the spatial reference's own when the
\* parameter is unset or 0
EffectiveXYTolerance ==
    IF param.xyTolerance.isNone \/ param.xyTolerance.value = 0
    THEN param.spatialReference.XYTolerance
    ELSE param.xyTolerance.value

EffectiveZTolerance ==
    IF param.zTolerance.isNone \/ param.zTolerance.value = 0
    THEN param.spatialReference.ZTolerance
    ELSE param.zTolerance.value

\* C2 (as claimed): a run with a user input error (no GDB path, no spatial
\* reference, a measure unit the conversion table lacks, a tolerance that is
\* not positive, a mode outside the enum) issues no mutating external call.
C2_InputErrorBeforeMutation ==
    (\/ param.outputGDB = ""
     \/ param.spatialReference.isNone
     \/ Lower(getMUnitsParam) \notin unitsConversions
     \/ EffectiveXYTolerance <= 0
     \/ EffectiveZTolerance <= 0
     \/ Mode \notin {"ENGINEERING", "CONTINUOUS"})
    => NoMutatingCall

\* C3 (as claimed): a run whose XY tolerance parameter is 0 or negative ends in
\* validateInput and attempts no import.
C3_ZeroOrNegativeRejected ==
    (~param.xyTolerance.isNone /\ param.xyTolerance.value <= 0 /\ pc # "validateInput")
    => RaisedInValidation /\ NoImport

\* C3 (amended): a run whose effective XY tolerance (the parameter, or the
\* spatial reference's XYTolerance when the parameter is unset or 0) is 0 or
\* negative ends in validateInput and attempts no import.
C3_EffectiveToleranceRejected ==
    (EffectiveXYTolerance <= 0 /\ pc # "validateInput")
    => RaisedInValidation /\ NoImport

C3_Witness ==
    /\ pc = "failed"
    /\ param.xyTolerance = Number(0)
    /\ param.spatialReference = SR(0, 0)
    /\ raised.message = <<"Please provide an XY Tolerance that is greater than 0.">>

\* C4: when the scan finds a conflict and overwriteOutput is off, the run fails
\* with one error whose message lists every conflicting dataset and every
\* conflicting domain, and no delete and no import call is issued.
C4_ConflictsReportedOnce ==
    (/\ pc \notin {"validateInput", "checkNames"}
     /\ ~env.overwriteOutput
     /\ Len(conflicts.datasets) + Len(conflicts.domains) > 0)
    => /\ pc = "failed"
       /\ raised.type = "ExecuteError"
       /\ Len(errors) = 1
       /\ Range(conflicts.datasets) \subseteq Range(errors[1])
       /\ Range(conflicts.domains) \subseteq Range(errors[1])
       /\ Range(conflicts.datasets) \cup Range(conflicts.domains) \subseteq Range(raised.message)
       /\ NoConflictDelete
       /\ NoImport

C4_Witness ==
    /\ pc = "failed"
    /\ ~env.overwriteOutput
    /\ Len(conflicts.datasets) > 1
    /\ Len(conflicts.domains) > 1

\* the deletions checkNames owes: each conflicting dataset, then each
\* conflicting domain, in list order
OwedDeletes ==
    [i \in 1..(Len(conflicts.datasets) + Len(conflicts.domains)) |->
        IF i <= Len(conflicts.datasets)
        THEN [op |-> "Delete_management", target |-> conflicts.datasets[i]]
        ELSE [op |-> "DeleteDomain_management",
              target |-> conflicts.domains[i - Len(conflicts.datasets)]]]

ConflictDeletes == SelectSeq(calls, IsConflictDelete)

\* the run ended in a deletion of checkNames
FailedInDelete ==
    /\ pc = "failed"
    /\ calls # <<>>
    /\ IsConflictDelete(calls[Len(calls)])

\* C5: with overwriteOutput on, the conflicting datasets and then the
\* conflicting domains are deleted one by one in list order before anything
\* else is called; a run that goes on has deleted them all; a run that a
\* deletion ends has logged that item's name, issues nothing after it, and
\* what it deleted before is gone.
C5_DeleteInOrderThenStop ==
    (env.overwriteOutput /\ pc \notin {"validateInput", "checkNames"})
    => LET n == Len(ConflictDeletes)
       IN  /\ n <= Len(OwedDeletes)
           /\ \A i \in 1..n :
                /\ IsConflictDelete(calls[i])
                /\ calls[i].op = OwedDeletes[i].op
                /\ calls[i].target = OwedDeletes[i].target
           /\ ~FailedInDelete => n = Len(OwedDeletes)
           /\ FailedInDelete =>
                /\ Len(calls) = n
                /\ Len(errors) = 1
                /\ errors[1][2] = calls[n].target
                /\ \A i \in 1..(n - 1) :
                      calls[i].target \notin
                          (IF calls[i].op = "Delete_management"
                           THEN gdb.datasets ELSE gdb.domains)

C5_Witness ==
    /\ FailedInDelete
    /\ Len(calls) = 3
    /\ calls[1].op = "Delete_management"
    /\ calls[3].op = "DeleteDomain_management"

\* the dataset names the two documents declare, at any depth
AllDeclaredNames ==
    Range(DeclaredNames(env.updmXml.datasets)) \cup Range(DeclaredNames(env.lrsXml.datasets))

\* C6 (as claimed): the dataset scan returns exactly the declared names that
\* exist in the geodatabase, each once.
C6_ScanReturnsExistingNames ==
    pc \notin {"validateInput", "checkNames"}
    => /\ Range(conflicts.datasets) = AllDeclaredNames \cap env.existingDatasets
       /\ Len(conflicts.datasets) = Cardinality(AllDeclaredNames \cap env.existingDatasets)

\* a CONTINUOUS, an ENGINEERING run that succeeded
ContinuousDone == pc = "done" /\ Mode = "CONTINUOUS"

EngineeringDone == pc = "done" /\ Mode = "ENGINEERING"

EventTablesCount(network) ==
    Len(SelectSeq(network.children, LAMBDA child : child.tag = "EventTables"))

\* C8: after the CONTINUOUS rewrite the continuous network holds exactly the
\* event tables the engineering network held before, in the same order, and
\* the engineering network's event-table list is empty.
C8_EventTablesMoved ==
    ContinuousDone
    => /\ NamesOf(EventTablesOf(StoredMetadata.continuous))
            = NamesOf(EventTablesOf(ImportedMetadata.engineering))
       /\ EventTablesCount(StoredMetadata.continuous) = 1
       /\ EventTablesCount(StoredMetadata.engineering) = 1
       /\ EventTablesOf(StoredMetadata.engineering) = <<>>

C8_Witness ==
    /\ ContinuousDone
    /\ Len(EventTablesOf(ImportedMetadata.engineering)) = 2
    /\ Len(EventTablesOf(StoredMetadata.continuous)) = 2

\* C9 (as claimed): after a successful ENGINEERING run the continuous network
\* of the stored metadata has DerivedFromNetwork = "2" and IsDerived = "true".
C9_ContinuousMarkedDerived ==
    EngineeringDone
    => /\ StoredMetadata.continuous.DerivedFromNetwork = "2"
       /\ StoredMetadata.continuous.IsDerived = "true"

\* C10: after a successful ENGINEERING run every event table of the
\* engineering network carries the derived route fields and the store flag; a
\* point event has the derived measure field CONTINM and its derived
\* to-measure field is as it was; a line event has CONTINFROMM and CONTINTOM.
C10_DerivedFieldsSet ==
    EngineeringDone
    => /\ Len(EventTablesOf(StoredMetadata.engineering))
            = Len(EventTablesOf(ImportedMetadata.engineering))
       /\ \A i \in 1..Len(EventTablesOf(StoredMetadata.engineering)) :
            LET e == EventTablesOf(StoredMetadata.engineering)[i]
                before == EventTablesOf(ImportedMetadata.engineering)[i]
            IN  /\ e.Name = before.Name
                /\ e.DerivedRouteIdFieldName = "CONTINROUTEID"
                /\ e.DerivedRouteNameFieldName = "CONTINROUTENAME"
                /\ e.StoreFieldsFromDerivedNetworkWithEventRecords = "true"
                /\ IF before.IsPointEvent = "true"
                   THEN /\ e.DerivedFromMeasureFieldName = "CONTINM"
                        /\ e.DerivedToMeasureFieldName = before.DerivedToMeasureFieldName
                   ELSE /\ e.DerivedFromMeasureFieldName = "CONTINFROMM"
                        /\ e.DerivedToMeasureFieldName = "CONTINTOM"

C10_Witness ==
    /\ EngineeringDone
    /\ \E i, j \in 1..Len(EventTablesOf(StoredMetadata.engineering)) :
          /\ EventTablesOf(StoredMetadata.engineering)[i].IsPointEvent = "true"
          /\ EventTablesOf(StoredMetadata.engineering)[j].IsPointEvent = "false"

\* the document the run parsed, and the same tree with the generated element
\* in the place of every SpatialReference
OriginalTree == env.updmXml.root

RECURSIVE Substituted(_)
Substituted(elements) ==
    [i \in 1..Len(elements) |->
        IF elements[i].tag = "SpatialReference"
        THEN newSpatialReferenceElement
        ELSE [elements[i] EXCEPT !.children = Substituted(@)]]

\* replaceSpatialReference has returned: populateUpdmWorkspace is next or has begun
Replaced ==
    \/ pc = "populateUpdmWorkspace"
    \/ \E i \in 1..Len(calls) :
          calls[i].op = "CreateScratchName" /\ calls[i].target = "updm.xml"

\* C11: after replaceSpatialReference the document holds as many
\* SpatialReference elements as before, each the generated element, each at
\* the position (same parent, same child index) of an original one, and every
\* other element is where it was; before it the document is untouched.
C11_ReplacedInPlace ==
    /\ ~Replaced => updmXml = OriginalTree
    /\ Replaced =>
         /\ updmXml = Substituted(OriginalTree)
         /\ Len(iterSpatialReference(updmXml)) = Len(iterSpatialReference(OriginalTree))
         /\ \A i \in 1..Len(iterSpatialReference(updmXml)) :
               iterSpatialReference(updmXml)[i] = newSpatialReferenceElement.id

C11_Witness ==
    /\ Replaced
    /\ Len(OriginalTree) = 2
    /\ OriginalTree[1].tag = "SpatialReference"
    /\ OriginalTree[2].tag = "DataElement"
    /\ Len(OriginalTree[2].children) = 2
    /\ OriginalTree[2].children[1].tag = "SpatialReference"
    /\ OriginalTree[2].children[2].tag = "SpatialReference"
    /\ Len(iterSpatialReference(updmXml)) = 3

\* addIndexes has returned: addDomains is next or has begun
AddIndexesReturned ==
    \/ pc = "addDomains"
    \/ \E i \in 1..Len(calls) : calls[i].op = "AssignDomainToField_management"

\* the AddIndex calls made for one index specification, in order
AddIndexCallsFor(base) ==
    SelectSeq(calls, LAMBDA call : call.op = "AddIndex_management" /\ call.arg = base)

\* base, base_2, base_3, ...
NumberedName(base, k) ==
    IF k = 1 THEN <<base>>
    ELSE <<base, "_", <<"1", "2", "3", "4", "5", "6", "7", "8", "9">>[k]>>

\* C12: when every AddIndex call succeeded, the calls made for an index
\* specification over K tables are K, one per table in table order, and the
\* index names they pass are base, base_2, ..., base_K, no two the same.
C12_IndexNamesNumbered ==
    AddIndexesReturned =>
        \A s \in 1..Len(indexesOf(lrsMetadata)) :
            LET index == indexesOf(lrsMetadata)[s]
                made == AddIndexCallsFor(index.name)
            IN  /\ Len(made) = Len(index.tables)
                /\ \A k \in 1..Len(made) :
                      /\ made[k].target = index.tables[k]
                      /\ IndexNameText(made[k]) = NumberedName(index.name, k)
                /\ \A j, k \in 1..Len(made) :
                      j # k => IndexNameText(made[j]) # IndexNameText(made[k])

C12_Witness ==
    /\ AddIndexesReturned
    /\ Len(AddIndexCallsFor("ix_ROUTEID")) = 5
    /\ IndexNameText(AddIndexCallsFor("ix_ROUTEID")[5]) = <<"ix_ROUTEID", "_", "5">>
    /\ Len(AddIndexCallsFor("ix_EVENTID")) = 0

\* tolerance * 0.1
TenthOf(tolerance) == Times(tolerance, Rat(1, 10))

\* C13: the generated SpatialReference element carries, on each of the XY, Z
\* and M axes, the positive tolerance T of that axis and a scale with
\* scale * (T * 0.1) = 1; T is the effective XY and Z tolerance of the run
\* and the M tolerance computed from the XY tolerance.
C13_ScaleTimesResolutionIsOne ==
    Replaced =>
        /\ newSpatialReferenceXml.XYTolerance = Rat(EffectiveXYTolerance, 1)
        /\ newSpatialReferenceXml.ZTolerance = Rat(EffectiveZTolerance, 1)
        /\ newSpatialReferenceXml.MTolerance.num > 0
        /\ Times(newSpatialReferenceXml.XYScale,
                 TenthOf(Rat(EffectiveXYTolerance, 1))) = Rat(1, 1)
        /\ Times(newSpatialReferenceXml.ZScale,
                 TenthOf(Rat(EffectiveZTolerance, 1))) = Rat(1, 1)
        /\ Times(newSpatialReferenceXml.MScale,
                 TenthOf(newSpatialReferenceXml.MTolerance)) = Rat(1, 1)

C13_Witness ==
    /\ Replaced
    /\ param.mUnits = ""
    /\ newSpatialReferenceXml.XYTolerance = Rat(1, 1)
    /\ newSpatialReferenceXml.XYScale = Rat(10, 1)
    /\ newSpatialReferenceXml.MTolerance = Rat(1250, 381)
    /\ newSpatialReferenceXml.MScale = Rat(381, 125)

\* both units of the conversion are keys of the units-per-meter table
BothUnitsInTable ==
    /\ conversion.fromUnits \in unitsConversions
    /\ conversion.toUnits \in unitsConversions

\* the conversion there and back returned the distance it started from
RoundTripReturnsDistance ==
    BothUnitsInTable /\ conversion.pc # "there" /\ conversion.pc # "back"
    => /\ conversion.pc = "done"
       /\ conversion.back.value = conversion.distance

\* C14 (as claimed): the units-per-meter table has 13 entries, and for every
\* pair of them a distance converted there and back is returned unchanged.
C14_RoundTripThirteenUnits ==
    /\ Cardinality(unitsConversions) = 13
    /\ RoundTripReturnsDistance

\* C14 (amended): the units-per-meter table has 11 entries, and for every
\* pair of them a distance converted there and back is returned unchanged.
C14_RoundTripElevenUnits ==
    /\ Cardinality(unitsConversions) = 11
    /\ RoundTripReturnsDistance

C14_Witness ==
    /\ conversion.pc = "done"
    /\ conversion.fromUnits = "inches"
    /\ conversion.toUnits = "miles"
    /\ conversion.distance = Rat(1, 2)
    /\ conversion.there.value = Rat(1, 126720)
    /\ conversion.back.value = Rat(1, 2)

\* the run ended in a call of the given operation that the platform failed
FailedInCall(op) ==
    /\ pc = "failed"
    /\ calls # <<>>
    /\ calls[Len(calls)].op = op
    /\ raised = PlatformError(calls[Len(calls)])

\* C15 (as claimed): a failed AddIndex call and a failed AssignDomainToField
\* call are both logged with the offending names before the exception goes
\* on: the index name and the table, the domain and the field and table.
C15_FailureLoggedWithName ==
    /\ FailedInCall("AddIndex_management") =>
          /\ errors # <<>>
          /\ Range(IndexNameText(calls[Len(calls)])) \subseteq Range(errors[Len(errors)])
          /\ calls[Len(calls)].target \in Range(errors[Len(errors)])
    /\ FailedInCall("AssignDomainToField_management") =>
          /\ errors # <<>>
          /\ calls[Len(calls)].detail \in Range(errors[Len(errors)])
          /\ calls[Len(calls)].target \in Range(errors[Len(errors)])

\* C16 (as claimed): every run that fails ends by raising the platform's
\* execution error, arcpy.ExecuteError, whichever step failed.
C16_FailureIsExecuteError ==
    pc = "failed" => raised.type = "ExecuteError"

\* an attempt to delete a scratch item: Delete_management on the scratch
\* geodatabase, os.remove on the scratch folder
IsScratchDelete(call) ==
    \/ call.op = "Delete_management" /\ call.detail = "scratchGDB"
    \/ call.op = "os.remove"

ScratchDeletes == SelectSeq(calls, IsScratchDelete)

CouldNotDelete ==
    SelectSeq(warnings, LAMBDA message : message[1] = "Could not delete ")

\* C17: every scratch file and scratch feature class the run has created has
\* had its deletion attempted by the time the function that created it is
\* left, however the function ended; a deletion that fails logs a warning
\* and nothing else: no error message is about it and the exception a failed
\* run ends with never comes from it.
C17_ScratchDeletedBestEffort ==
    /\ \A item \in scratch :
          \E i \in 1..Len(calls) : IsScratchDelete(calls[i]) /\ calls[i].target = item
    /\ env.scratchDeleteFails => Len(CouldNotDelete) = Len(ScratchDeletes)
    /\ \A i \in 1..Len(errors) : errors[i][1] # "Could not delete "
    /\ pc = "failed" =>
          /\ raised.message # <<>>
          /\ raised.message[1] # "os.remove"
          /\ ~(raised.message = <<"Delete_management", "srFC">>)

C17_Witness ==
    /\ pc = "done"
    /\ env.scratchDeleteFails
    /\ scratch = {"srFC", "srFC.xml", "updm.xml", "lrs.xml"}
    /\ Len(CouldNotDelete) = 4
    /\ errors = <<>>

CallsOf(op) == SelectSeq(calls, LAMBDA call : call.op = op)

MetadataUpdates ==
    SelectSeq(calls, LAMBDA call : call.op = "updateRow" /\ call.target = "Lrs_Metadata")

BehaviorUpdates ==
    SelectSeq(calls, LAMBDA call : call.op = "updateRow"
                                   /\ call.target = "Lrs_Event_Behavior")

\* the mode-dependent rewrite of the networks and events has begun
RewriteBegun == branches # <<>>

\* C18 (as claimed): the mode-dependent rewrite of the network and event
\* mappings comes before index creation and domain assignment: no index is
\* added and no domain is assigned before the rewrite has begun.
C18_RewriteBeforeIndexes ==
    ~RewriteBegun =>
        /\ CallsOf("AddIndex_management") = <<>>
        /\ CallsOf("AssignDomainToField_management") = <<>>

\* C18 (as the code does it): the post-processing steps come in the order
\* units/timezone rewrite of the metadata, index creation, domain assignment,
\* mode-dependent rewrite of the networks and events, versioning: every row
\* of the metadata is rewritten before an index is added, every index is
\* added before a domain is assigned, all indexes and domains are in place
\* when the mode-dependent rewrite begins, and no table is registered as
\* versioned before that rewrite is complete.
C18_RewriteAfterDomains ==
    /\ CallsOf("AddIndex_management") # <<>> =>
          Len(MetadataUpdates) >= Len(gdb.Lrs_Metadata)
    /\ \A i \in 1..Len(calls) :
          calls[i].op = "AssignDomainToField_management" =>
              \A j \in i..Len(calls) : calls[j].op # "AddIndex_management"
    /\ RewriteBegun =>
          /\ CallsOf("AddIndex_management") = addIndexesCalls(lrsMetadata)
          /\ CallsOf("AssignDomainToField_management") = addDomainsCalls(lrsMetadata)
    /\ ~RewriteBegun =>
          /\ CallsOf("DeleteField_management") = <<>>
          /\ CallsOf("RegisterAsVersioned_management") = <<>>
          /\ BehaviorUpdates = <<>>
          /\ Len(MetadataUpdates) <= Len(gdb.Lrs_Metadata)
    /\ CallsOf("RegisterAsVersioned_management") # <<>> =>
          /\ Len(MetadataUpdates) = 2 * Len(gdb.Lrs_Metadata)
          /\ Mode = "CONTINUOUS" =>
                /\ CallsOf("DeleteField_management")
                      = removeEngineeringFieldsCalls(lrsMetadata)
                /\ Len(BehaviorUpdates) = Len(gdb.Lrs_Event_Behavior)

C18_Witness ==
    /\ pc = "done"
    /\ Mode = "CONTINUOUS"
    /\ CallsOf("AddIndex_management") # <<>>
    /\ CallsOf("DeleteField_management") # <<>>
    /\ CallsOf("RegisterAsVersioned_management") # <<>>
    /\ MetadataUpdates # <<>>

\* the top-level step a call belongs to: 1 the conflict check, 2 the
\* substitution of the spatial reference, 3 the import of the UPDM document,
\* 4 the import of the LRS document, 5 the post-processing
StageOf(call) ==
    IF IsConflictDelete(call) THEN 1
    ELSE IF call.target \in {"srFC", "srFC.xml"} THEN 2
    ELSE IF call.target = "updm.xml" THEN 3
    ELSE IF call.target = "lrs.xml" THEN 4
    ELSE 5

StagesBegun == {StageOf(calls[i]) : i \in 1..Len(calls)}

ImportIssued(xmlPath, importType) ==
    \E i \in 1..Len(calls) : calls[i] = ImportXMLWorkspaceDocument(xmlPath, importType)

FailedImport(xmlPath, importType) ==
    /\ pc = "failed"
    /\ raised = PlatformError(ImportXMLWorkspaceDocument(xmlPath, importType))

\* C19: the top-level steps come in the order validation, conflict check,
\* substitution of the spatial reference, schema-only import of the UPDM
\* document, import of the LRS document with its data, post-processing, and a
\* step begins only when the ones before it have succeeded: a run that
\* validation or the conflict check ended has called nothing of a later step,
\* the LRS import is not attempted after a failed UPDM import, and no
\* post-processing call is issued after a failed LRS import.
C19_StepsInOrder ==
    /\ \A i \in 1..(Len(calls) - 1) : StageOf(calls[i]) <= StageOf(calls[i + 1])
    /\ pc = "failed" /\ raised.message \in ValidationMessages => calls = <<>>
    /\ pc = "failed" /\ raised.message # <<>>
          /\ raised.message[1] = "Some items already exist in the workspace."
          => calls = <<>>
    /\ FailedInDelete => StagesBegun = {1}
    /\ pc = "failed" /\ newSpatialReferenceXml = NoSpatialReferenceXml
          => StagesBegun \subseteq {1, 2}
    /\ StagesBegun \cap {3, 4, 5} # {} =>
          /\ newSpatialReferenceXml # NoSpatialReferenceXml
          /\ updmXml = replaceSpatialReference(env.updmXml.root)
    /\ StagesBegun \cap {4, 5} # {} => ImportIssued("updm.xml", "SCHEMA_ONLY")
    /\ 5 \in StagesBegun => ImportIssued("lrs.xml", "DATA")
    /\ FailedImport("updm.xml", "SCHEMA_ONLY") => StagesBegun \cap {4, 5} = {}
    /\ FailedImport("lrs.xml", "DATA") => 5 \notin StagesBegun

C19_Witness ==
    /\ FailedImport("lrs.xml", "DATA")
    /\ StagesBegun = {1, 2, 3, 4}

\* C20: after a CONTINUOUS run that succeeded, every row of Lrs_Event_Behavior
\* has NetworkId 1, whatever the imported row had, and the table has the rows
\* it was imported with.
C20_BehaviorRowsContinuous ==
    pc = "done" /\ Mode = "CONTINUOUS" =>
        /\ Len(gdb.Lrs_Event_Behavior) = Len(env.lrsXml.Lrs_Event_Behavior)
        /\ \A i \in 1..Len(gdb.Lrs_Event_Behavior) : gdb.Lrs_Event_Behavior[i] = 1

C20_Witness ==
    /\ pc = "done"
    /\ Mode = "CONTINUOUS"
    /\ env.lrsXml.Lrs_Event_Behavior = <<3, 2>>
    /\ gdb.Lrs_Event_Behavior = <<1, 1>>

\* removeEngineeringFields has returned in a CONTINUOUS run
RemoveEngineeringFieldsReturned ==
    /\ branches = <<"CONTINUOUS">>
    /\ pc \in {"updateContinuousMetadata", "registerAsVersioned", "done"}

\* the fields DeleteField_management was called with for a table, in call order
DeletedFieldsOf(table) ==
    LET deletes == SelectSeq(calls, LAMBDA call : call.op = "DeleteField_management"
                                                  /\ call.target = table)
    IN  [i \in 1..Len(deletes) |-> deletes[i].arg]

\* C21: in CONTINUOUS mode, once removeEngineeringFields has returned, every
\* named line-event table has had ENGROUTEID, ENGROUTENAME, ENGTOROUTEID,
\* ENGTOROUTENAME, ENGFROMM and ENGTOM deleted, every named point-event table
\* ENGROUTEID, ENGROUTENAME and ENGM, each once, no point-event table has had
\* a to-route column deleted, and no other table has lost a field.
C21_EngineeringFieldsRemoved ==
    RemoveEngineeringFieldsReturned =>
        /\ \A i \in 1..Len(iterEventTable(lrsMetadata)) :
             LET eventTable == iterEventTable(lrsMetadata)[i]
             IN  eventTable.Name # Absent =>
                   IF eventTable.IsPointEvent = "true"
                   THEN /\ DeletedFieldsOf(eventTable.Name)
                              = <<"ENGROUTEID", "ENGROUTENAME", "ENGM">>
                        /\ \A j \in 1..Len(calls) :
                              calls[j].target = eventTable.Name =>
                                  calls[j].arg \notin {"ENGTOROUTEID", "ENGTOROUTENAME"}
                   ELSE DeletedFieldsOf(eventTable.Name)
                           = <<"ENGROUTEID", "ENGROUTENAME", "ENGTOROUTEID",
                               "ENGTOROUTENAME", "ENGFROMM", "ENGTOM">>
        /\ \A j \in 1..Len(calls) :
              calls[j].op = "DeleteField_management" =>
                  \E i \in 1..Len(iterEventTable(lrsMetadata)) :
                      iterEventTable(lrsMetadata)[i].Name = calls[j].target

C21_Witness ==
    /\ pc = "done"
    /\ branches = <<"CONTINUOUS">>
    /\ Len(pointEventsOf(lrsMetadata)) = 1
    /\ Len(lineEventsOf(lrsMetadata)) = 1
    /\ Len(CallsOf("DeleteField_management")) = 9

\* the tables AddIndex_management was called for with the given fields, in call
\* order
IndexedTablesOf(fields) ==
    LET added == SelectSeq(calls, LAMBDA call : call.op = "AddIndex_management"
                                                /\ call.detail = fields)
    IN  [i \in 1..Len(added) |-> added[i].target]

\* the fields of the ten index specifications that do not depend on the mode
FixedIndexFields ==
    {"CENTERLINEID", "NETWORKID", "ROUTEID", "ROUTENAME", "LINEID", "LINENAME",
     "EVENTID", "FROMDATE", "TODATE", "FROMDATE;TODATE"}

IndexedFields == {calls[i].detail : i \in {j \in 1..Len(calls) :
                                             calls[j].op = "AddIndex_management"}}

NamedEventTables(isPointEvent) ==
    {eventTable.Name : eventTable \in
        {e \in Range(iterEventTable(lrsMetadata)) :
            e.Name # Absent /\ (e.IsPointEvent = "true") \in isPointEvent}}

\* C22: once addIndexes has returned, the indexes beyond the ten fixed ones are
\* the mode's: in ENGINEERING mode ENGROUTEID is indexed on every named event
\* table once and ENGTOROUTEID on every line-event table once and on no
\* point-event table, and CONTINROUTEID nowhere; in CONTINUOUS mode
\* CONTINROUTEID is indexed on every named event table once and no other
\* field beyond the fixed ones is indexed, so no ENG field is.
C22_ModeIndexes ==
    AddIndexesReturned =>
        IF Mode = "ENGINEERING"
        THEN /\ Range(IndexedTablesOf("ENGROUTEID")) = NamedEventTables(BOOLEAN)
             /\ Len(IndexedTablesOf("ENGROUTEID")) = Cardinality(NamedEventTables(BOOLEAN))
             /\ Range(IndexedTablesOf("ENGTOROUTEID")) = NamedEventTables({FALSE})
             /\ Len(IndexedTablesOf("ENGTOROUTEID")) = Cardinality(NamedEventTables({FALSE}))
             /\ IndexedFields \subseteq FixedIndexFields \cup {"ENGROUTEID", "ENGTOROUTEID"}
        ELSE /\ Mode = "CONTINUOUS"
             /\ Range(IndexedTablesOf("CONTINROUTEID")) = NamedEventTables(BOOLEAN)
             /\ Len(IndexedTablesOf("CONTINROUTEID")) = Cardinality(NamedEventTables(BOOLEAN))
             /\ IndexedFields \subseteq FixedIndexFields \cup {"CONTINROUTEID"}

C22_Witness ==
    /\ AddIndexesReturned
    /\ Mode = "ENGINEERING"
    /\ Cardinality(NamedEventTables({TRUE})) = 1
    /\ Cardinality(NamedEventTables({FALSE})) = 1
    /\ Len(IndexedTablesOf("ENGROUTEID")) = 2
    /\ Len(IndexedTablesOf("ENGTOROUTEID")) = 1

\* C23: the M tolerance of the generated SpatialReference element is the XY
\* tolerance times the reference's meters per unit times the measure unit's
\* units per meter, for every measure unit of the conversion table, in
\* whatever case it is written; for meters it is the XY tolerance times the
\* meters per unit.
C23_MToleranceConverted ==
    Replaced =>
        /\ Lower(getMUnitsParam) \in unitsConversions
        /\ newSpatialReferenceXml.MTolerance
              = Times(Times(Rat(EffectiveXYTolerance, 1), srMetersPerUnit.value),
                      unitsConversionsAt(Lower(getMUnitsParam)))
        /\ Lower(getMUnitsParam) = "meters" =>
              newSpatialReferenceXml.MTolerance
                  = Times(Rat(EffectiveXYTolerance, 1), srMetersPerUnit.value)

C23_Witness ==
    /\ Replaced
    /\ param.mUnits = "Kilometers"
    /\ param.spatialReference.metersPerUnit = 2
    /\ param.xyTolerance = Number(1)
    /\ newSpatialReferenceXml.MTolerance = Rat(1, 500)

\* the first conversion has been made
ConvertedThere == conversion.pc \in {"back", "done", "failed"}

\* both units are named and the table of convertUnits has no entry for one
UnitMissing ==
    /\ conversion.fromUnits # Absent
    /\ conversion.toUnits # Absent
    /\ \/ Lower(conversion.fromUnits) \notin unitsConversions
       \/ Lower(conversion.toUnits) \notin unitsConversions

\* the two units are names, and different ones once in lower case
UnitsDiffer ==
    /\ conversion.fromUnits # Absent
    /\ conversion.toUnits # Absent
    /\ Lower(conversion.fromUnits) # Lower(conversion.toUnits)

\* the conversion logged and raised the execution error with the fixed message
ConversionFailed ==
    /\ conversion.there.raised
          = ExecuteError(<<"Cannot calculate m tolerance and resolution.">>)
    /\ conversion.there.errors # <<>>
    /\ conversion.there.errors[Len(conversion.there.errors)]
          = <<"Cannot calculate m tolerance and resolution.">>
    /\ conversion.pc = "failed"

\* C24 (as claimed): whenever the table lacks an entry for the source or the
\* target unit, convertUnits logs and raises the execution error with the
\* fixed message and returns no number, also when the two unknown units are
\* the same.
C24_MissingUnitFails ==
    ConvertedThere /\ UnitMissing => ConversionFailed

\* C24 (as the code does it): convertUnits fails so whenever the two units
\* differ and the table lacks one of them; when the two units are the same
\* name, known to the table or not, or when one of them is None, it returns
\* the distance unchanged and logs nothing.
C24_MissingUnitFailsUnlessSame ==
    ConvertedThere =>
        /\ UnitsDiffer /\ UnitMissing => ConversionFailed
        /\ ~UnitsDiffer =>
              /\ conversion.there.raised = NoException
              /\ conversion.there.value = conversion.distance
              /\ conversion.there.errors = <<>>

C24_Witness ==
    /\ conversion.pc = "failed"
    /\ conversion.fromUnits = "Meters"
    /\ conversion.toUnits = "furlongs"
    /\ conversion.distance = Rat(1, 2)
    /\ ConversionFailed

\* getMetersPerUnit has been called: the scratch feature class was exported
GetMetersPerUnitCalled == newSpatialReferenceXml # NoSpatialReferenceXml

\* C25: getMetersPerUnit returns the spatial reference's metersPerUnit when
\* the reference has the property; when it has not, a geographic reference
\* gives 111319.9 and any other reference makes the failure go on: the run
\* ends with the exception the property raised.
C25_MetersPerUnit ==
    GetMetersPerUnitCalled =>
        IF param.spatialReference.hasMetersPerUnit
        THEN /\ srMetersPerUnit.raised = NoException
             /\ srMetersPerUnit.value = Rat(param.spatialReference.metersPerUnit, 1)
        ELSE IF param.spatialReference.type = "Geographic"
        THEN /\ srMetersPerUnit.raised = NoException
             /\ srMetersPerUnit.value = Rat(1113199, 10)
        ELSE /\ srMetersPerUnit.raised.type = "NameError"
             /\ pc = "failed"
             /\ raised = srMetersPerUnit.raised
             /\ updmXml = OriginalTree

C25_Witness ==
    /\ Replaced
    /\ ~param.spatialReference.hasMetersPerUnit
    /\ param.spatialReference.type = "Geographic"
    /\ srMetersPerUnit.value = Rat(1113199, 10)
    /\ param.mUnits = "Meters"
    /\ newSpatialReferenceXml.MTolerance = Rat(1113199, 10)

\* the calls issued are the first calls of the batch, each once, in order
IsPrefix(issued, batch) ==
    /\ Len(issued) <= Len(batch)
    /\ issued = SubSeq(batch, 1, Len(issued))

\* the run ended in a call of the given operations, which raised
FailedInBatch(ops) ==
    /\ pc = "failed"
    /\ calls # <<>>
    /\ calls[Len(calls)].op \in ops
    /\ raised = PlatformError(calls[Len(calls)])

\* C26: no external call is retried and nothing is undone.  When a call of the
\* index, domain, versioning or conflict-deletion batch fails, the calls of
\* the batch issued are the calls before it and the failing call, each once
\* and in order, the failing call is the last call of the run, no call of a
\* later step has been issued, and what the deletions before it removed is
\* still gone.
C26_NoRetryNoRollback ==
    /\ FailedInBatch({"AddIndex_management"}) =>
          /\ IsPrefix(CallsOf("AddIndex_management"), addIndexesCalls(lrsMetadata))
          /\ CallsOf("AssignDomainToField_management") = <<>>
          /\ CallsOf("DeleteField_management") = <<>>
          /\ CallsOf("RegisterAsVersioned_management") = <<>>
          /\ ~RewriteBegun
    /\ FailedInBatch({"AssignDomainToField_management"}) =>
          /\ CallsOf("AddIndex_management") = addIndexesCalls(lrsMetadata)
          /\ IsPrefix(CallsOf("AssignDomainToField_management"),
                      addDomainsCalls(lrsMetadata))
          /\ CallsOf("DeleteField_management") = <<>>
          /\ CallsOf("RegisterAsVersioned_management") = <<>>
          /\ ~RewriteBegun
    /\ FailedInBatch({"RegisterAsVersioned_management"}) =>
          /\ CallsOf("AddIndex_management") = addIndexesCalls(lrsMetadata)
          /\ CallsOf("AssignDomainToField_management") = addDomainsCalls(lrsMetadata)
          /\ IsPrefix(CallsOf("RegisterAsVersioned_management"), registerAsVersionedCalls)
    /\ FailedInBatch({"Delete_management", "DeleteDomain_management"}) =>
          /\ IsPrefix(ConflictDeletes, removeCalls(conflicts.datasets, conflicts.domains))
          /\ calls = ConflictDeletes
          /\ gdb.datasets = env.existingDatasets
                \ {calls[i].target : i \in {j \in 1..(Len(calls) - 1) :
                                               calls[j].op = "Delete_management"}}
          /\ gdb.domains = env.existingDomains
                \ {calls[i].target : i \in {j \in 1..(Len(calls) - 1) :
                                               calls[j].op = "DeleteDomain_management"}}

C26_Witness ==
    /\ FailedInBatch({"RegisterAsVersioned_management"})
    /\ Len(CallsOf("RegisterAsVersioned_management")) = 3
    /\ calls[Len(calls)].target = "P_Integrity"

VersionedTables ==
    [i \in 1..Len(CallsOf("RegisterAsVersioned_management")) |->
        CallsOf("RegisterAsVersioned_management")[i].target]

\* C27: versioning is the last step of a run and happens only in a
\* RemoteDatabase workspace.  No call of another kind follows a
\* RegisterAsVersioned call and the rewrite of the networks and events is
\* complete before the first one; a completed run in a RemoteDatabase
\* workspace has registered Lrs_Edit_Log, P_Centerline_Sequence and
\* P_Integrity, and P_PipeSystem exactly when the register-pipe-system flag is
\* set; in any other workspace no RegisterAsVersioned call is issued.
C27_VersioningLastAndRemoteOnly ==
    /\ \A i \in 1..(Len(calls) - 1) :
          calls[i].op = "RegisterAsVersioned_management"
          => calls[i + 1].op = "RegisterAsVersioned_management"
    /\ VersionedTables # <<>> =>
          /\ pc \in {"done", "failed"}
          /\ RewriteBegun
          /\ Len(MetadataUpdates) = 2 * Len(gdb.Lrs_Metadata)
    /\ env.workspaceType # "RemoteDatabase" => VersionedTables = <<>>
    /\ pc = "done" /\ env.workspaceType = "RemoteDatabase" =>
          /\ SubSeq(VersionedTables, 1, 3)
                = <<"Lrs_Edit_Log", "P_Centerline_Sequence", "P_Integrity">>
          /\ Len(VersionedTables) = IF param.registerPipeSystem THEN 4 ELSE 3
          /\ param.registerPipeSystem => VersionedTables[4] = "P_PipeSystem"
    /\ "P_PipeSystem" \in Range(VersionedTables) => param.registerPipeSystem

C27_Witness ==
    /\ pc = "done"
    /\ env.workspaceType = "RemoteDatabase"
    /\ param.registerPipeSystem
    /\ Len(VersionedTables) = 4

ChildTexts(network, tag) ==
    {network.children[i].text :
        i \in {j \in 1..Len(network.children) : network.children[j].tag = tag}}

\* the element carries what updateMetadata writes
Patched(network) ==
    /\ ChildTexts(network, "UnitsOfMeasure") = {getUnitsNumber(getMUnitsParamAsText)}
    /\ ChildTexts(network, "TimeZoneOffset") = {"0"}
    /\ ChildTexts(network, "TimeZoneId") = {"UTC"}
    /\ \A i \in 1..Len(EventTablesOf(network)) :
          /\ EventTablesOf(network)[i].TimeZoneOffset = "0"
          /\ EventTablesOf(network)[i].TimeZoneId = "UTC"

\* C28: the metadata stored at the end of a successful run carries both
\* rewrites: the units and time zone that updateMetadata wrote are on every
\* network and on every event table after the rewrite of the mode, which in
\* CONTINUOUS has moved the event tables and in ENGINEERING has marked the
\* continuous network derived.
C28_BothPatchesStored ==
    pc = "done" /\ Len(gdb.Lrs_Metadata) > 0 =>
        /\ Patched(StoredMetadata.continuous)
        /\ Patched(StoredMetadata.engineering)
        /\ Len(MetadataUpdates) = 2 * Len(gdb.Lrs_Metadata)
        /\ StoredMetadata = IF Mode = "CONTINUOUS"
                            THEN updateContinuousMetadataRow(
                                     updateMetadataRow(ImportedMetadata)).xml
                            ELSE setDerivedNetworkRow(
                                     updateMetadataRow(ImportedMetadata)).xml

C28_Witness ==
    /\ ContinuousDone
    /\ ImportedMetadata = ZonedMetadata
    /\ getMUnitsParamAsText = "Meters"
    /\ ~Patched(ImportedMetadata.engineering)
    /\ Len(EventTablesOf(StoredMetadata.continuous)) = 2
    /\ Patched(StoredMetadata.continuous)

\* the fields of an index, from the text passed to AddIndex_management
FieldsOfIndex(fields) ==
    IF fields = "FROMDATE;TODATE" THEN {"FROMDATE", "TODATE"} ELSE {fields}

\* the columns (table, field) this run has put an index on
IndexedColumns ==
    UNION {{<<calls[i].target, field>> : field \in FieldsOfIndex(calls[i].detail)} :
              i \in {j \in 1..Len(calls) : calls[j].op = "AddIndex_management"}}

\* the columns (table, field) this run has asked to delete
DeletedColumns ==
    {<<calls[i].target, calls[i].arg>> :
        i \in {j \in 1..Len(calls) : calls[j].op = "DeleteField_management"}}

\* C29: in no run is a field deleted from a table after the run has added an
\* index on that field of that table: no column is both indexed and deleted,
\* the fields indexed in CONTINUOUS mode are none of the fields
\* removeEngineeringFields deletes, and an ENGINEERING run deletes no field.
C29_NoIndexedFieldDeleted ==
    /\ IndexedColumns \cap DeletedColumns = {}
    /\ Mode = "CONTINUOUS" =>
          {column[2] : column \in IndexedColumns}
              \cap {column[2] : column \in DeletedColumns} = {}
    /\ Mode = "ENGINEERING" => DeletedColumns = {}

C29_Witness ==
    /\ ContinuousDone
    /\ <<"P_CenterlineAccuracy", "CONTINROUTEID">> \in IndexedColumns
    /\ <<"P_CenterlineAccuracy", "EVENTID">> \in IndexedColumns
    /\ <<"P_CenterlineAccuracy", "ENGTOROUTEID">> \in DeletedColumns
    /\ <<"P_Anomaly", "ENGM">> \in DeletedColumns

\* the attributes of an event table that name its route fields
RouteFieldsOf(eventTable) ==
    <<eventTable.Name, eventTable.RouteIdFieldName, eventTable.RouteNameFieldName,
      eventTable.ToRouteIdFieldName, eventTable.ToRouteNameFieldName>>

\* the event tables of a network, each with its route fields
RegisteredEvents(network) ==
    [i \in 1..Len(EventTablesOf(network)) |-> RouteFieldsOf(EventTablesOf(network)[i])]

\* C30: an ENGINEERING run leaves the physical schema of the events alone:
\* Lrs_Event_Behavior stays as imported, no field of any table is deleted, and
\* in every stored metadata row every event table stays in its network with
\* its RouteIdFieldName, RouteNameFieldName, ToRouteIdFieldName and
\* ToRouteNameFieldName; updateEventBehaviorTable, removeEngineeringFields and
\* updateContinuousMetadata are never entered.
C30_EngineeringKeepsSchema ==
    Mode = "ENGINEERING" =>
        /\ gdb.Lrs_Event_Behavior \in {<<>>, env.lrsXml.Lrs_Event_Behavior}
        /\ BehaviorUpdates = <<>>
        /\ CallsOf("DeleteField_management") = <<>>
        /\ pc \notin {"updateEventBehaviorTable", "removeEngineeringFields",
                      "updateContinuousMetadata"}
        /\ "CONTINUOUS" \notin Range(branches)
        /\ \A r \in 1..Len(gdb.Lrs_Metadata) :
              /\ RegisteredEvents(gdb.Lrs_Metadata[r].continuous)
                    = RegisteredEvents(env.lrsXml.Lrs_Metadata[r].continuous)
              /\ RegisteredEvents(gdb.Lrs_Metadata[r].engineering)
                    = RegisteredEvents(env.lrsXml.Lrs_Metadata[r].engineering)

C30_Witness ==
    /\ EngineeringDone
    /\ Len(gdb.Lrs_Event_Behavior) = 2
    /\ gdb.Lrs_Event_Behavior[1] = 2
    /\ Len(EventTablesOf(StoredMetadata.engineering)) = 2
    /\ EventTablesOf(StoredMetadata.engineering)[1].DerivedRouteIdFieldName = "CONTINROUTEID"
    /\ EventTablesOf(StoredMetadata.engineering)[1].RouteIdFieldName = "ENGROUTEID"

====
